---- MODULE Spec2Model ----
(***************************************************************************)
(* Model of sprockets.mixins.mediatype: the ContentSettings registry       *)
(* (content.py), the transcoder shapes (handlers.py) and the ContentMixin  *)
(* request handler methods (content.py).                                   *)
(*                                                                         *)
(* A header string is modelled structurally, the way the parser cuts it:   *)
(*   main   - the pieces of the text before the first ';' split on '/',    *)
(*            each piece being the sequence of its '+'-separated tokens    *)
(*   params - the "; name=value" pairs in the order they are written       *)
(* so that parsing, lower-casing, sorting and formatting are computed.     *)
(*                                                                         *)
(* The functions of the ietfparse library that content.py calls            *)
(* (parse_content_type, parse_accept, select_content_type, str and the     *)
(* ordering of ContentType) are modelled by what the calls do.             *)
(***************************************************************************)
EXTENDS Integers, Sequences, FiniteSets, TLC

\* ---------------------------------------------------------------- bounds
MaxTypes == 2
MaxCalls == 2
MaxFormLen == 4
MaxFields == 3
MaxItems == 3
MaxOctets == 3
MaxHeld == 2

\* ------------------------------------------------------- python's None
None == [tag |-> "None"]

\* ------------------------------------------------- strings and ordering
\* str.lower() on the tokens that occur in the model
Lower(s) ==
    CASE s = "A" -> "a"
      [] s = "B" -> "b"
      [] s = "JSON" -> "json"
      [] OTHER -> s

\* a header string
Text(main, params) == [main |-> main, params |-> params]

Param(n, v) == [n |-> n, v |-> v]

\* ------------------------------------------------ ietfparse, as called
ValueError == [tag |-> "ValueError"]

\* ietfparse.datastructures.ContentType(type, subtype, parameters, suffix)
ContentType(t, s, p, x) ==
    [content_type |-> t, content_subtype |-> s,
     content_suffix |-> x, parameters |-> p]

\* headers.parse_content_type(content_type)
parse_content_type(text) ==
    LET
        \* a content_suffix that is not None
        Suffix(s) == [str |-> s]

        \* dict(parameters): names lower-cased, values normalised to lower case,
        \* a repeated name keeps its last value
        ParameterDict(params) ==
            LET names == {Lower(params[i].n) : i \in DOMAIN params}
                last(n) == CHOOSE i \in DOMAIN params :
                              /\ Lower(params[i].n) = n
                              /\ \A j \in DOMAIN params :
                                    Lower(params[j].n) = n => j <= i
            IN  [n \in names |-> Lower(params[last(n)].v)]
    IN
    IF Len(text.main) # 2 THEN ValueError
    ELSE IF Len(text.main[1]) # 1 \/ Len(text.main[2]) \notin {1, 2}
         THEN ValueError
    ELSE ContentType(Lower(text.main[1][1]),
                     Lower(text.main[2][1]),
                     ParameterDict(text.params),
                     IF Len(text.main[2]) = 2
                     THEN Suffix(Lower(text.main[2][2])) ELSE None)

\* 'type/subtype' joined with '+suffix' when the suffix is not None
JoinType(parsed) ==
    <<  <<parsed.content_type>>,
        IF parsed.content_suffix = None
        THEN <<parsed.content_subtype>>
        ELSE <<parsed.content_subtype, parsed.content_suffix.str>> >>

\* str(ContentType): type/subtype[+suffix] and the parameters sorted by name
Str(parsed) ==
    LET
        \* the lower-cased parameter names in python's string order
        NameOrder == <<"a", "b", "q">>

        NameRank(n) == CHOOSE i \in 1..Len(NameOrder) : NameOrder[i] = n

        RECURSIVE Sorted(_)
        \* sorted(names): the names of S in ascending string order
        Sorted(S) ==
            IF S = {} THEN <<>>
            ELSE LET m == CHOOSE x \in S : \A y \in S : NameRank(x) <= NameRank(y)
                 IN  <<m>> \o Sorted(S \ {m})
    IN
    LET names == Sorted(DOMAIN parsed.parameters)
    IN  Text(JoinType(parsed),
             [i \in 1..Len(names) |->
                 Param(names[i], parsed.parameters[names[i]])])

\* ------------------------------------------------- content negotiation
TokenRank(t) ==
    LET
        \* the type and subtype tokens in python's string order
        TokenOrder == <<"*", "application", "content", "expected", "json",
                        "msgpack", "text", "vendor", "xml">>
    IN
    CHOOSE i \in 1..Len(TokenOrder) : TokenOrder[i] = t

\* ContentType.__lt__ orders by type, then subtype, then the number of
\* parameters: the position of a content type in that order
ContentTypeKey(a) ==
    TokenRank(a.content_type) * 1000 + TokenRank(a.content_subtype) * 10
      + Cardinality(DOMAIN a.parameters)

\* ContentType.__eq__
ContentTypeEqual(a, b) ==
    /\ a.content_type = b.content_type
    /\ a.content_subtype = b.content_subtype
    /\ a.content_suffix = b.content_suffix
    /\ a.parameters = b.parameters

\* sorted(seq, key=...) with keys[i] the sort key of seq[i]; stable, as
\* python's sort is
StableSort(seq, keys) ==
    LET pos(k) == 1 + Cardinality({j \in DOMAIN seq :
                         \/ keys[j] < keys[k]
                         \/ keys[j] = keys[k] /\ j < k})
    IN  [p \in DOMAIN seq |-> seq[CHOOSE k \in DOMAIN seq : pos(k) = p]]

\* headers.parse_accept(header_value): every entry parsed, its q parameter
\* popped into the quality attribute, ordered by quality and specificity
parse_accept(entries) ==
    LET
        \* the q parameter of an Accept entry in tenths; 1.0 when it is absent
        Quality(parsed) ==
            IF "q" \notin DOMAIN parsed.parameters THEN 10
            ELSE CASE parsed.parameters["q"] = "0" -> 0
                   [] parsed.parameters["q"] = "0.5" -> 5
                   [] OTHER -> 10
    IN
    LET one(text) ==
            LET header == parse_content_type(text)
            IN  [content_type |-> header.content_type,
                 content_subtype |-> header.content_subtype,
                 content_suffix |-> header.content_suffix,
                 parameters |-> [n \in DOMAIN header.parameters \ {"q"}
                                    |-> header.parameters[n]],
                 quality |-> Quality(header)]
        headers == [i \in DOMAIN entries |-> one(entries[i])]
        \* higher quality first, then the greater content type first
        ordering == [i \in DOMAIN headers |->
                        0 - (headers[i].quality * 100000
                               + ContentTypeKey(headers[i]))]
    IN  StableSort(headers, ordering)

NoMatch == [tag |-> "NoMatch"]

\* algorithms._content_type_matches(candidate, pattern)
content_type_matches(candidate, pattern) ==
    /\ pattern.content_type \in {"*", candidate.content_type}
    /\ pattern.content_subtype \in {"*", candidate.content_subtype}

\* Match.match_type: FULL_TYPE 0, PARTIAL 1, WILDCARD 2
match_type(pattern) ==
    IF pattern.content_type = "*" /\ pattern.content_subtype = "*" THEN 2
    ELSE IF pattern.content_subtype = "*" THEN 1
    ELSE 0

\* Match.parameter_distance
parameter_distance(candidate, pattern) ==
    LET cp == candidate.parameters
        pp == pattern.parameters
        shared == DOMAIN cp \cap DOMAIN pp
    IN  Cardinality(DOMAIN cp)
          - Cardinality({n \in shared : pp[n] = cp[n]})
          + Cardinality({n \in shared : pp[n] # cp[n]})

\* the candidate part of a ContentType with a quality attribute
Plain(pattern) ==
    ContentType(pattern.content_type, pattern.content_subtype,
                pattern.parameters, pattern.content_suffix)

\* a selection that takes the first candidate matched by the entry of the
\* highest quality, however specific the entry is
select_content_type_by_quality(requested, available) ==
    LET patterns == StableSort(requested,
                               [i \in DOMAIN requested |->
                                   0 - requested[i].quality])
        candidates == StableSort(available,
                                 [i \in DOMAIN available |->
                                     ContentTypeKey(available[i])])
        np == Len(patterns)
        nc == Len(candidates)
        pat(k) == patterns[((k - 1) \div nc) + 1]
        cand(k) == candidates[((k - 1) % nc) + 1]
        visited == {k \in 1..(np * nc) : content_type_matches(cand(k), pat(k))}
    IN  IF visited = {} THEN NoMatch
        ELSE cand(CHOOSE k \in visited : \A j \in visited : k <= j)

\* a selection that visits the candidates in the order they were registered
select_content_type_as_registered(requested, available) ==
    LET patterns == StableSort(requested,
                               [i \in DOMAIN requested |->
                                   0 - requested[i].quality])
        np == Len(patterns)
        nc == Len(available)
        pat(k) == patterns[((k - 1) \div nc) + 1]
        cand(k) == available[((k - 1) % nc) + 1]
        visited == {k \in 1..(np * nc) : content_type_matches(cand(k), pat(k))}
        exact == {k \in visited : ContentTypeEqual(cand(k), Plain(pat(k)))}
        better(k, j) ==
            \/ match_type(pat(k)) < match_type(pat(j))
            \/ /\ match_type(pat(k)) = match_type(pat(j))
               /\ \/ parameter_distance(cand(k), pat(k))
                      < parameter_distance(cand(j), pat(j))
                  \/ /\ parameter_distance(cand(k), pat(k))
                          = parameter_distance(cand(j), pat(j))
                     /\ k < j
    IN  IF exact # {}
        THEN LET e == CHOOSE k \in exact : \A j \in exact : k <= j
             IN  IF pat(e).quality = 0 THEN NoMatch ELSE cand(e)
        ELSE IF visited = {} THEN NoMatch
        ELSE cand(CHOOSE k \in visited :
                      \A j \in visited : j = k \/ better(k, j))

\* algorithms.select_content_type(requested, available): the selected
\* candidate, or NoMatch
select_content_type(requested, available) ==
    LET patterns == StableSort(requested,
                               [i \in DOMAIN requested |->
                                   0 - requested[i].quality])
        candidates == StableSort(available,
                                 [i \in DOMAIN available |->
                                     ContentTypeKey(available[i])])
        np == Len(patterns)
        nc == Len(candidates)
        \* the pairs in the order the nested loops visit them
        pat(k) == patterns[((k - 1) \div nc) + 1]
        cand(k) == candidates[((k - 1) % nc) + 1]
        visited == {k \in 1..(np * nc) : content_type_matches(cand(k), pat(k))}
        exact == {k \in visited : ContentTypeEqual(cand(k), Plain(pat(k)))}
        matches == [k \in visited |-> [candidate |-> cand(k),
                                       mt |-> match_type(pat(k)),
                                       pd |-> parameter_distance(cand(k), pat(k))]]
        better(k, j) ==
            \/ matches[k].mt < matches[j].mt
            \/ /\ matches[k].mt = matches[j].mt
               /\ \/ matches[k].pd < matches[j].pd
                  \/ matches[k].pd = matches[j].pd /\ k < j
    IN  IF exact # {}
        THEN LET e == CHOOSE k \in exact : \A j \in exact : k <= j
             IN  IF pat(e).quality = 0 THEN NoMatch ELSE cand(e)
        ELSE IF visited = {} THEN NoMatch
        ELSE LET b == CHOOSE k \in visited :
                         \A j \in visited : j = k \/ better(k, j)
             IN  cand(b)

\* ---------------------------------------------------- values and bytes
\* a decoded or to-be-encoded value: a dict, None, or an object() no
\* transcoder has a rule for
Dict == [tag |-> "dict"]
Object == [tag |-> "object"]
\* an integer of more than 64 bits: json writes it, msgpack has no format
\* for it
Huge == [tag |-> "huge"]

\* the name of a character encoding
Encoding(name) == [name |-> name]

\* a byte string: the wire form of doc in format fmt
Bytes(fmt, doc) == [fmt |-> fmt, doc |-> doc]

Returned(v) == [kind |-> "return", exc |-> "", status |-> 0, value |-> v]
Raised(e) == [kind |-> "raise", exc |-> e, status |-> 0, value |-> None]
HTTPError(code) ==
    [kind |-> "raise", exc |-> "HTTPError", status |-> code, value |-> None]

\* isinstance(exc, cls) for the exception classes that occur
IsInstance(e, cls) ==
    CASE cls = "Exception" -> TRUE
      [] cls = "ValueError" ->
            e \in {"ValueError", "JSONDecodeError", "UnicodeDecodeError"}
      [] cls = "TypeError" -> e = "TypeError"
      [] cls = "KeyError" -> e = "KeyError"
      [] OTHER -> e = cls

\* the pack / dumps function of a format applied to a value
pack(fmt, value) ==
    IF value = Object THEN Raised("TypeError")
    ELSE IF value = Huge /\ fmt = "msgpack"
         THEN Raised("UnsupportedTypeException")
    ELSE Returned(Bytes(fmt, value))

\* the unpack / loads function of a format applied to a byte string
unpack(fmt, data) ==
    IF data.fmt = fmt THEN Returned(data.doc)
    ELSE Raised(IF fmt = "json" THEN "JSONDecodeError"
                ELSE "UnpackException")

\* ------------------------------------------------------- handlers.py
BinaryContentHandler(content_type, fmt) ==
    [cls |-> "BinaryContentHandler", content_type |-> content_type,
     fmt |-> fmt, default_encoding |-> None]

TextContentHandler(content_type, fmt, default_encoding) ==
    [cls |-> "TextContentHandler", content_type |-> content_type,
     fmt |-> fmt, default_encoding |-> default_encoding]

\* handler.to_bytes(inst_data): (content_type, bytes) or the exception of
\* the pack function; the text handler appends charset="<encoding>"
to_bytes(handler, inst_data) ==
    LET packed == pack(handler.fmt, inst_data)
        content_type ==
            IF handler.cls = "TextContentHandler"
            THEN Text(handler.content_type.main,
                      handler.content_type.params
                        \o <<Param("charset", [quoted |-> handler.default_encoding])>>)
            ELSE handler.content_type
    IN  IF packed.kind = "raise" THEN packed
        ELSE Returned([content_type |-> content_type,
                       data_bytes |-> packed.value])

\* handler.from_bytes(data_bytes)
from_bytes(handler, data_bytes) == unpack(handler.fmt, data_bytes)

\* ------------------------------------- transcoders.py, form-urlencoded
\* ord(c) of the characters that are named below
Ord(c) ==
    CASE c = " " -> 32 [] c = "%" -> 37 [] c = "&" -> 38 [] c = "*" -> 42
      [] c = "+" -> 43 [] c = "-" -> 45 [] c = "." -> 46 [] c = "0" -> 48
      [] c = "4" -> 52 [] c = "9" -> 57 [] c = "=" -> 61 [] c = "A" -> 65
      [] c = "F" -> 70 [] c = "Z" -> 90 [] c = "_" -> 95 [] c = "a" -> 97
      [] c = "b" -> 98 [] c = "c" -> 99 [] c = "e" -> 101 [] c = "f" -> 102
      [] c = "l" -> 108 [] c = "r" -> 114 [] c = "s" -> 115
      [] c = "t" -> 116 [] c = "u" -> 117 [] c = "z" -> 122
      [] c = "N" -> 78 [] c = "T" -> 84 [] c = "n" -> 110 [] c = "o" -> 111
      [] c = "'" -> 39 [] c = "(" -> 40 [] c = ")" -> 41 [] c = "," -> 44
      [] c = "<" -> 60 [] c = ">" -> 62 [] c = "[" -> 91 [] c = "]" -> 93
      [] c = "j" -> 106 [] c = "{" -> 123 [] c = "}" -> 125
      [] c = "E" -> 69
      [] c = "\"" -> 34 [] c = "/" -> 47 [] c = ":" -> 58 [] c = "\\" -> 92

\* an ASCII string, written as the sequence of its characters
Ascii(chars) == [i \in DOMAIN chars |-> Ord(chars[i])]

\* FormUrlEncodingOptions.literal_mapping, the default
DefaultLiterals ==
    [literal \in {"None", "True", "False"} |->
        CASE literal = "None" -> <<>>
          [] literal = "True" -> Ascii(<<"t", "r", "u", "e">>)
          [] literal = "False" -> Ascii(<<"f", "a", "l", "s", "e">>)]

\* FormUrlEncodingOptions(encoding, encode_sequences, literal_mapping,
\* space_as_plus)
FormUrlEncodingOptions(encoding, encode_sequences, literal_mapping, space_as_plus) ==
    [encoding |-> encoding, encode_sequences |-> encode_sequences,
     literal_mapping |-> literal_mapping, space_as_plus |-> space_as_plus]

\* the value of a hexadecimal digit, -1 for any other character
HexValue(c) ==
    IF c \in Ord("0")..Ord("9") THEN c - Ord("0")
    ELSE IF c \in Ord("A")..Ord("F") THEN c - Ord("A") + 10
    ELSE IF c \in Ord("a")..Ord("f") THEN c - Ord("a") + 10
    ELSE 0 - 1

\* from_bytes, the dequote function the options select
dequote(options, s) ==
    LET
        RECURSIVE unquote_to_bytes(_)
        \* urllib.parse.unquote_to_bytes: %XX becomes the octet, a '%' that is not
        \* followed by two hexadecimal digits stays
        unquote_to_bytes(string) ==
            IF string = <<>> THEN <<>>
            ELSE IF /\ string[1] = Ord("%")
                    /\ Len(string) >= 3
                    /\ HexValue(string[2]) >= 0
                    /\ HexValue(string[3]) >= 0
                 THEN <<16 * HexValue(string[2]) + HexValue(string[3])>>
                        \o unquote_to_bytes(SubSeq(string, 4, Len(string)))
                 ELSE <<string[1]>> \o unquote_to_bytes(Tail(string))

        RECURSIVE decode_replace_from(_, _)
        \* octets[i:] decoded as UTF-8 with errors='replace' (octets that start a
        \* sequence of three or four, 0xE0..0xF4, left aside): a sequence of two
        \* octets becomes its character, any other octet above 0x7F becomes U+FFFD
        decode_replace_from(octets, i) ==
            IF i > Len(octets) THEN <<>>
            ELSE IF octets[i] < 128
                 THEN <<octets[i]>> \o decode_replace_from(octets, i + 1)
            ELSE IF /\ octets[i] \in 194..223
                    /\ i < Len(octets)
                    /\ octets[i + 1] \in 128..191
                 THEN <<(octets[i] - 192) * 64 + (octets[i + 1] - 128)>>
                        \o decode_replace_from(octets, i + 2)
            ELSE <<65533>> \o decode_replace_from(octets, i + 1)

        \* bytes.decode('utf-8', 'replace')
        decode_replace(octets) == decode_replace_from(octets, 1)

        \* urllib.parse.unquote(string, encoding, errors='replace')
        unquote(string) == decode_replace(unquote_to_bytes(string))

        \* urllib.parse.unquote_plus: '+' becomes ' ' before unquoting
        unquote_plus(string) ==
            unquote([i \in DOMAIN s |-> IF string[i] = Ord("+") THEN Ord(" ") ELSE string[i]])
    IN
    IF options.space_as_plus THEN unquote_plus(s) ELSE unquote(s)

\* a dict built from pairs in which the first pair of a name wins
dict_first_wins(output) ==
    [name \in {output[i][1] : i \in DOMAIN output} |->
        LET i == CHOOSE i \in DOMAIN output :
                    /\ output[i][1] = name
                    /\ \A j \in 1..(i - 1) : output[j][1] # name
        IN  output[i][2]]

\* dict(output): a later pair of the same name replaces the earlier ones
dict(output) ==
    [name \in {output[i][1] : i \in DOMAIN output} |->
        LET i == CHOOSE i \in DOMAIN output :
                    /\ output[i][1] = name
                    /\ \A j \in (i + 1)..Len(output) : output[j][1] # name
        IN  output[i][2]]

\* FormUrlEncodedTranscoder.from_bytes(data_bytes)
form_from_bytes(options, data_bytes) ==
    LET
        \* bytes.decode('ascii')
        decode_ascii(encoded) ==
            IF \E i \in DOMAIN encoded : encoded[i] >= 128
            THEN Raised("UnicodeDecodeError")
            ELSE Returned(encoded)

        \* the position of the first sep in s, 0 when there is none
        Find(s, sep) ==
            IF \E i \in DOMAIN s : s[i] = sep
            THEN CHOOSE i \in DOMAIN s :
                    s[i] = sep /\ \A j \in 1..(i - 1) : s[j] # sep
            ELSE 0

        RECURSIVE split(_, _)
        \* str.split(sep)
        split(s, sep) ==
            LET i == Find(s, sep)
            IN  IF i = 0 THEN <<s>>
                ELSE <<SubSeq(s, 1, i - 1)>> \o split(SubSeq(s, i + 1, Len(s)), sep)

        \* str.partition(sep): head, whether sep is present, tail
        partition(s, sep) ==
            LET i == Find(s, sep)
            IN  IF i = 0 THEN [head |-> s, sep |-> FALSE, tail |-> <<>>]
                ELSE [head |-> SubSeq(s, 1, i - 1), sep |-> TRUE,
                      tail |-> SubSeq(s, i + 1, Len(s))]
    IN
    LET text == decode_ascii(data_bytes)
    IN  IF text.kind = "raise" THEN text
        ELSE
        LET parts == SelectSeq(split(text.value, Ord("&")),
                               LAMBDA part : part # <<>>)
            pair(part) ==
                LET p == partition(part, Ord("="))
                IN  <<dequote(options, p.head),
                      IF p.sep THEN dequote(options, p.tail) ELSE <<>> >>
        IN  Returned(dict([i \in DOMAIN parts |-> pair(parts[i])]))

\* values handed to the form transcoder: t is the python type, v what a
\* scalar holds (the characters of a str, the octets of bytes, the text
\* str() gives for a number) and items what a container holds (the values
\* of a list, the (key, value) items of a dict)
FormNone == [t |-> "None", v |-> <<>>, items |-> <<>>]
FormBool(b) == [t |-> "bool", v |-> <<IF b THEN 1 ELSE 0>>, items |-> <<>>]
FormStr(chars) == [t |-> "str", v |-> chars, items |-> <<>>]
FormInt(digits) == [t |-> "int", v |-> digits, items |-> <<>>]
FormList(items) == [t |-> "list", v |-> <<>>, items |-> items]
FormDict(pairs) == [t |-> "dict", v |-> <<>>, items |-> [i \in DOMAIN pairs |-> FormList(pairs[i])]]

\* the characters the table leaves as they are: ascii_letters, digits, '*-_.'
Unreserved ==
    (Ord("A")..Ord("Z")) \cup (Ord("a")..Ord("z")) \cup (Ord("0")..Ord("9"))
      \cup {Ord("*"), Ord("-"), Ord("_"), Ord(".")}

\* the upper-case hexadecimal digit of a value below 16
HexDigit(n) == IF n < 10 THEN Ord("0") + n ELSE Ord("A") + (n - 10)

\* _FORM_URLENCODING: '%{:02X}'.format(c) for c in range(0, 255), updated
\* with the characters that stand for themselves
_FORM_URLENCODING ==
    [c \in 0..254 |->
        IF c \in Unreserved THEN <<c>>
        ELSE <<Ord("%"), HexDigit(c \div 16), HexDigit(c % 16)>>]

\* _FORM_URLENCODING_PLUS
_FORM_URLENCODING_PLUS ==
    [_FORM_URLENCODING EXCEPT ![Ord(" ")] = <<Ord("+")>>]

\* ''.join(pieces)
Join(pieces) ==
    LET
        RECURSIVE JoinFrom(_, _)
        \* ''.join(parts[i - 1:])
        JoinFrom(parts, i) ==
            IF i > Len(parts) THEN <<>> ELSE parts[i] \o JoinFrom(parts, i + 1)
    IN
    JoinFrom(pieces, 1)

\* str.encode(encoding) for utf-8 and latin-1, characters below U+0800
str_encode(chars, encoding) ==
    IF encoding = "latin-1"
    THEN IF \E i \in DOMAIN chars : chars[i] >= 256
         THEN Raised("UnicodeEncodeError")
         ELSE Returned(chars)
    ELSE Returned(Join([i \in DOMAIN chars |->
                           IF chars[i] < 128 THEN <<chars[i]>>
                           ELSE <<192 + (chars[i] \div 64),
                                  128 + (chars[i] % 64)>>]))

\* FormUrlEncodedTranscoder._encode(datum, char_map, encoding)
_encode(options, datum, char_map, encoding) ==
    LET
        \* ''.join(char_map[c] for c in octets): KeyError for an octet the table
        \* has no entry for
        quote_octets(table, octets) ==
            IF \E i \in DOMAIN octets : octets[i] \notin DOMAIN table
            THEN Raised("KeyError")
            ELSE Returned(Join([i \in DOMAIN octets |-> table[octets[i]]]))

        \* the name of a literal in FormUrlEncodingOptions.literal_mapping
        LiteralName(value) ==
            IF value.t = "None" THEN "None"
            ELSE IF value.v = <<1>> THEN "True" ELSE "False"

        \* str(datum) of None, a bool, a number, a str or a plain object
        StrOfScalar(value) ==
            CASE value.t = "None" -> Ascii(<<"N", "o", "n", "e">>)
              [] value.t = "bool" ->
                    IF value.v = <<1>> THEN Ascii(<<"T", "r", "u", "e">>)
                    ELSE Ascii(<<"F", "a", "l", "s", "e">>)
              [] OTHER -> value.v

        \* the brackets repr() puts around the elements of a list, tuple or set
        OpenBracket(t) ==
            CASE t = "list" -> Ord("[") [] t = "tuple" -> Ord("(") [] OTHER -> Ord("{")

        CloseBracket(t) ==
            CASE t = "list" -> Ord("]") [] t = "tuple" -> Ord(")") [] OTHER -> Ord("}")

        \* repr() of the characters of a str that holds no ' and no control
        \* character: a backslash is doubled
        ReprChars(chars) ==
            Join([i \in DOMAIN chars |->
                    IF chars[i] = Ord("\\") THEN <<chars[i], chars[i]>>
                    ELSE <<chars[i]>>])

        RECURSIVE Repr(_)
        RECURSIVE ReprFrom(_, _)
        RECURSIVE ReprItemsFrom(_, _)
        \* ', '.join(repr(key) + ': ' + repr(value) for the items[i:] of a dict)
        ReprItemsFrom(items, i) ==
            IF i > Len(items) THEN <<>>
            ELSE (IF i = 1 THEN <<>> ELSE <<Ord(","), Ord(" ")>>)
                   \o Repr(items[i].items[1]) \o <<Ord(":"), Ord(" ")>>
                   \o Repr(items[i].items[2]) \o ReprItemsFrom(items, i + 1)

        \* ', '.join(repr(item) for item in items[i:])
        ReprFrom(items, i) ==
            IF i > Len(items) THEN <<>>
            ELSE (IF i = 1 THEN <<>> ELSE <<Ord(","), Ord(" ")>>)
                   \o Repr(items[i]) \o ReprFrom(items, i + 1)

        \* repr(datum) of a scalar that is not bytes, and of a list, tuple, set
        \* or dict of these: 'text' for a str, (1,) for a tuple of one, set() for
        \* a set of none
        Repr(value) ==
            CASE value.t = "str" ->
                    <<Ord("'")>> \o ReprChars(value.v) \o <<Ord("'")>>
              [] value.t = "dict" ->
                    <<Ord("{")>> \o ReprItemsFrom(value.items, 1) \o <<Ord("}")>>
              [] value.t \in {"None", "bool", "int", "object"} -> StrOfScalar(value)
              [] value.t = "set" /\ value.items = <<>> ->
                    Ascii(<<"s", "e", "t", "(", ")">>)
              [] value.t = "tuple" /\ Len(value.items) = 1 ->
                    <<Ord("(")>> \o Repr(value.items[1]) \o <<Ord(","), Ord(")")>>
              [] \/ value.t = "list"
                 \/ value.t = "tuple" /\ Len(value.items) # 1
                 \/ value.t = "set" /\ value.items # <<>> ->
                    <<OpenBracket(value.t)>> \o ReprFrom(value.items, 1)
                      \o <<CloseBracket(value.t)>>

        \* str(datum)
        StrOf(value) ==
            IF value.t \in {"list", "tuple", "set", "dict"} THEN Repr(value)
            ELSE StrOfScalar(value)

        \* the text _encode turns a datum that is not bytes into: the literal of
        \* the table for a datum that is in it, str(datum) otherwise
        text_of(opts, value) ==
            IF value.t \in {"None", "bool"}
                 /\ LiteralName(value) \in DOMAIN opts.literal_mapping
            THEN opts.literal_mapping[LiteralName(value)]
            ELSE StrOf(value)

        \* ''.join(char_map[c] for c in datum.encode(encoding))
        quote_text(table, octets) ==
            IF octets.kind = "raise" THEN octets
            ELSE quote_octets(table, octets.value)
    IN
    IF datum.t = "bytes" THEN quote_octets(char_map, datum.v)
    ELSE quote_text(char_map, str_encode(text_of(options, datum), encoding))

RECURSIVE Decimal(_)
\* str(n) of a natural number
Decimal(n) ==
    IF n < 10 THEN <<Ord("0") + n>>
    ELSE Decimal(n \div 10) \o <<Ord("0") + (n % 10)>>

\* FormUrlEncodedTranscoder._convert_to_tuple_sequence(value)
_convert_to_tuple_sequence(options, value) ==
    LET
        \* iterating a value: the items a for loop sees, or TypeError
        Iterate(held) ==
            CASE held.t \in {"list", "tuple", "set"} -> Returned(held.items)
              [] held.t = "dict" ->
                    Returned([i \in DOMAIN held.items |-> held.items[i].items[1]])
              [] held.t = "str" ->
                    Returned([i \in DOMAIN held.v |-> FormStr(<<held.v[i]>>)])
              [] held.t = "bytes" ->
                    Returned([i \in DOMAIN held.v |-> FormInt(Decimal(held.v[i]))])
              [] OTHER -> Raised("TypeError")

        \* a, b = items: ValueError when there are not two
        unpack_two(items) ==
            IF items.kind = "raise" THEN items
            ELSE IF Len(items.value) # 2 THEN Raised("ValueError")
            ELSE items

        \* for a, b in item: the two things an item unpacks into, ValueError when
        \* it does not hold two, TypeError when it cannot be iterated
        Unpack(item) == unpack_two(Iterate(item))

        \* [(a, b) for a, b in value], TypeError when an element is not a pair
        pairs_of(elements) ==
            IF \E i \in DOMAIN elements : Unpack(elements[i]).kind = "raise"
            THEN Raised("TypeError")
            ELSE Returned([i \in DOMAIN elements |-> Unpack(elements[i]).value])

        \* value.items() of a mapping, the pairs of anything else
        tuples_of(held, items) ==
            IF held.t = "dict"
            THEN Returned([i \in DOMAIN held.items |-> held.items[i].items])
            ELSE IF items.kind = "raise" THEN Raised("TypeError")
            ELSE pairs_of(items.value)

        \* (a, value) for value in b when b is iterable and neither bytes nor str
        expand(pair, inner) ==
            IF pair[2].t \notin {"bytes", "str"} /\ inner.kind = "return"
            THEN [i \in DOMAIN inner.value |-> <<pair[1], inner.value[i]>>]
            ELSE <<pair>>

        \* the out_tuples of encode_sequences
        expand_sequences(opts, tuples) ==
            IF tuples.kind = "raise" \/ ~opts.encode_sequences THEN tuples
            ELSE Returned(Join([i \in DOMAIN tuples.value |->
                                   expand(tuples.value[i],
                                          Iterate(tuples.value[i][2]))]))
    IN
    expand_sequences(options, tuples_of(value, Iterate(value)))

\* a loop body that writes '=' after every name
field_text_always_equals(value, name_text, value_text) ==
    IF name_text.kind = "raise" THEN name_text
    ELSE IF value_text.kind = "raise" THEN value_text
    ELSE Returned(name_text.value \o <<Ord("=")>> \o value_text.value)

\* what the loop of to_bytes appends for one (name, value): the encoded
\* name, then '=' and the encoded value when the value is not None
field_text(value, name_text, value_text) ==
    IF name_text.kind = "raise" THEN name_text
    ELSE IF value.t = "None" THEN name_text
    ELSE IF value_text.kind = "raise" THEN value_text
    ELSE Returned(name_text.value \o <<Ord("=")>> \o value_text.value)

\* the first exception of the loop
first_raised(pieces) ==
    pieces[CHOOSE i \in DOMAIN pieces :
              /\ pieces[i].kind = "raise"
              /\ \A j \in 1..(i - 1) : pieces[j].kind = "return"]

\* FormUrlEncodedTranscoder.to_bytes(inst_data): the tuples, or the datum
\* itself when it is not a sequence of tuples; every name encoded, '=' and
\* the encoded value appended when the value is not None, '&' between
form_to_bytes(options, inst_data) ==
    LET
        \* ''.join(buf).encode('ascii') with prefix '&' before every field but the
        \* first, returned with the content type
        join_fields(pieces) ==
            IF \E i \in DOMAIN pieces : pieces[i].kind = "raise"
            THEN first_raised(pieces)
            ELSE Returned([content_type |-> "application/x-www-formurlencoded",
                           data_bytes |->
                               Join([i \in DOMAIN pieces |->
                                       (IF i = 1 THEN <<>> ELSE <<Ord("&")>>)
                                         \o pieces[i].value])])

        \* for name, value in tuples
        encode_tuples(opts, chr_map, tuples) ==
            join_fields([i \in DOMAIN tuples |->
                           field_text(tuples[i][2],
                                      _encode(opts, tuples[i][1], chr_map,
                                              opts.encoding),
                                      _encode(opts, tuples[i][2], chr_map,
                                              opts.encoding))])

        \* tuples = [(inst_data, None)] when inst_data is no sequence of tuples
        tuples_or_primitive(data, converted) ==
            IF converted.kind = "raise" THEN << <<data, FormNone>> >>
            ELSE converted.value
    IN
    encode_tuples(options,
                  IF options.space_as_plus THEN _FORM_URLENCODING_PLUS
                  ELSE _FORM_URLENCODING,
                  tuples_or_primitive(inst_data,
                      _convert_to_tuple_sequence(options, inst_data)))

\* ------------------------------------------- values of other python types
\* a value of a type that holds no other values, and one that holds some
Scalar(t, v) == [t |-> t, v |-> v, items |-> <<>>]
Container(t, items) == [t |-> t, v |-> <<>>, items |-> items]

\* the types isinstance(datum, (bytes, bytearray, memoryview)) accepts
ByteTypes == {"bytes", "bytearray", "memoryview"}

\* the outcomes of a loop over items: the first exception, or the results
collect(outcomes) ==
    IF \E i \in DOMAIN outcomes : outcomes[i].kind = "raise"
    THEN first_raised(outcomes)
    ELSE Returned([i \in DOMAIN outcomes |-> outcomes[i].value])

\* ---------------------------------------- tornado.escape, as called
RECURSIVE utf8_from(_, _)
\* the characters of octets[i:] decoded as UTF-8 (one- and two-octet
\* sequences), <<0 - 1>> first when an octet cannot be decoded
utf8_from(octets, i) ==
    IF i > Len(octets) THEN <<>>
    ELSE IF octets[i] < 128 THEN <<octets[i]>> \o utf8_from(octets, i + 1)
    ELSE IF /\ octets[i] \in 194..223
            /\ i < Len(octets)
            /\ octets[i + 1] \in 128..191
         THEN <<(octets[i] - 192) * 64 + (octets[i + 1] - 128)>>
                \o utf8_from(octets, i + 2)
    ELSE <<0 - 1>>

\* what decoding produced, UnicodeDecodeError when an octet was refused
decoded_or_error(chars) ==
    IF \E i \in DOMAIN chars : chars[i] < 0
    THEN Raised("UnicodeDecodeError")
    ELSE Returned(Scalar("str", chars))

\* the container rebuilt from its converted items
rebuilt(t, items) ==
    IF items.kind = "raise" THEN items
    ELSE Returned(Container(t, items.value))

RECURSIVE recursive_unicode(_)
\* escape.recursive_unicode(obj): bytes decoded to str inside dicts, lists
\* and tuples, everything else left as it is
recursive_unicode(obj) ==
    LET
        \* escape.to_unicode(value): value.decode('utf-8')
        to_unicode(value) == decoded_or_error(utf8_from(value.v, 1))
    IN
    IF obj.t \in {"dict", "list", "tuple"}
    THEN rebuilt(obj.t, collect([i \in DOMAIN obj.items |->
                                    recursive_unicode(obj.items[i])]))
    ELSE IF obj.t = "bytes" THEN to_unicode(obj)
    ELSE Returned(obj)

\* ---------------------------------------------- transcoders.py, JSON
\* base64.b64encode(obj).decode('ASCII')
b64encode(octets) ==
    LET
        \* the character of the standard base64 alphabet with the given index
        Base64Char(index) ==
            IF index < 26 THEN Ord("A") + index
            ELSE IF index < 52 THEN Ord("a") + (index - 26)
            ELSE IF index < 62 THEN Ord("0") + (index - 52)
            ELSE IF index = 62 THEN Ord("+") ELSE Ord("/")

        \* the four characters of a group of three octets, '=' for the missing
        Base64Group(n, present) ==
            << Base64Char(n \div 262144), Base64Char((n \div 4096) % 64),
               IF present >= 2 THEN Base64Char((n \div 64) % 64) ELSE Ord("="),
               IF present >= 3 THEN Base64Char(n % 64) ELSE Ord("=") >>

        \* the octet at position i, 0 past the end
        OctetAt(s, i) == IF i <= Len(s) THEN s[i] ELSE 0

        RECURSIVE b64_from(_, _)
        \* base64.b64encode(s[i - 1:])
        b64_from(s, i) ==
            IF i > Len(s) THEN <<>>
            ELSE Base64Group(s[i] * 65536 + OctetAt(s, i + 1) * 256
                               + OctetAt(s, i + 2),
                             Len(s) - i + 1)
                   \o b64_from(s, i + 3)
    IN
    b64_from(octets, 1)

\* JSONTranscoder.dump_object(obj)
dump_object(obj) ==
    CASE obj.t = "uuid" -> Returned(Scalar("str", obj.v))
      [] obj.t = "datetime" -> Returned(Scalar("str", obj.v))
      [] obj.t \in ByteTypes -> Returned(Scalar("str", b64encode(obj.v)))
      [] obj.t = "ipaddress" -> Returned(Scalar("str", obj.v))
      [] obj.t = "decimal" -> Returned(Scalar("float", obj.v))
      [] obj.t = "dataclass" -> Returned(Container("dict", obj.items))
      [] OTHER -> Raised("TypeError")

RECURSIVE json_dumps(_)
\* JSONTranscoder.dumps(obj): json.dumps(obj, default=self.dump_object,
\* separators=(',', ':'))
json_dumps(obj) ==
    LET
        \* the lower-case hexadecimal digit of a value below 16
        LowerHexDigit(n) == IF n < 10 THEN Ord("0") + n ELSE Ord("a") + (n - 10)

        \* a character inside a JSON string, ensure_ascii: \" and \\, \u00xx with
        \* lower-case digits for what is not printable ASCII (below U+0100)
        json_char(c) ==
            IF c = Ord("\"") THEN <<Ord("\\"), Ord("\"")>>
            ELSE IF c = Ord("\\") THEN <<Ord("\\"), Ord("\\")>>
            ELSE IF c = 10 THEN <<Ord("\\"), Ord("n")>>
            ELSE IF c \in 32..126 THEN <<c>>
            ELSE <<Ord("\\"), Ord("u"), Ord("0"), Ord("0"),
                   LowerHexDigit(c \div 16), LowerHexDigit(c % 16)>>

        \* a str as a JSON string
        json_string(chars) ==
            <<Ord("\"")>> \o Join([i \in DOMAIN chars |-> json_char(chars[i])])
              \o <<Ord("\"")>>

        \* a key of a dict as a JSON string: a str as it is, an int, bool or None
        \* as its JSON text, TypeError for any other key
        json_key(key) ==
            CASE key.t = "str" -> Returned(json_string(key.v))
              [] key.t \in {"int", "float"} -> Returned(json_string(key.v))
              [] key.t = "bool" ->
                    Returned(json_string(IF key.v = <<1>>
                                         THEN Ascii(<<"t", "r", "u", "e">>)
                                         ELSE Ascii(<<"f", "a", "l", "s", "e">>)))
              [] key.t = "None" -> Returned(json_string(Ascii(<<"n", "u", "l", "l">>)))
              [] OTHER -> Raised("TypeError")

        \* key:value
        json_member(key_text, value_text) ==
            IF key_text.kind = "raise" THEN key_text
            ELSE IF value_text.kind = "raise" THEN value_text
            ELSE Returned(key_text.value \o <<Ord(":")>> \o value_text.value)

        \* the texts of the elements between brackets, separated by ','
        json_bracketed(open, texts, close) ==
            IF texts.kind = "raise" THEN texts
            ELSE Returned(<<open>>
                            \o Join([i \in DOMAIN texts.value |->
                                       (IF i = 1 THEN <<>> ELSE <<Ord(",")>>)
                                         \o texts.value[i]])
                            \o <<close>>)

        RECURSIVE json_default(_)
        \* json.dumps calling default=dump_object on what it does not know and
        \* encoding what the hook returns
        json_default(hooked) ==
            IF hooked.kind = "raise" THEN hooked ELSE json_dumps(hooked.value)
    IN
    CASE obj.t = "None" -> Returned(Ascii(<<"n", "u", "l", "l">>))
      [] obj.t = "bool" ->
            Returned(IF obj.v = <<1>> THEN Ascii(<<"t", "r", "u", "e">>)
                     ELSE Ascii(<<"f", "a", "l", "s", "e">>))
      [] obj.t \in {"int", "float"} -> Returned(obj.v)
      [] obj.t = "str" -> Returned(json_string(obj.v))
      [] obj.t \in {"list", "tuple"} ->
            json_bracketed(Ord("["),
                           collect([i \in DOMAIN obj.items |->
                                      json_dumps(obj.items[i])]),
                           Ord("]"))
      [] obj.t = "dict" ->
            json_bracketed(Ord("{"),
                           collect([i \in DOMAIN obj.items |->
                                      json_member(
                                          json_key(obj.items[i].items[1]),
                                          json_dumps(obj.items[i].items[2]))]),
                           Ord("}"))
      [] OTHER -> json_default(dump_object(obj))

\* TextContentHandler.to_bytes(inst_data) of the JSONTranscoder, utf-8
json_to_bytes(inst_data) ==
    LET
        \* dumped.encode(selected), returned with the content type
        text_encoded(content_type, dumped, selected) ==
            IF dumped.kind = "raise" THEN dumped
            ELSE IF str_encode(dumped.value, selected).kind = "raise"
                 THEN str_encode(dumped.value, selected)
            ELSE Returned([content_type |-> content_type,
                           data_bytes |-> str_encode(dumped.value, selected).value])

        \* self._dumps(escape.recursive_unicode(inst_data))
        dumps_converted(converted) ==
            IF converted.kind = "raise" THEN converted
            ELSE json_dumps(converted.value)
    IN
    text_encoded("application/json; charset=\"utf-8\"",
                 dumps_converted(recursive_unicode(inst_data)), "utf-8")

\* --------------------------------------- json.loads, as called by loads
\* what scanning from a position gave: a value and the position after it,
\* or no value
Parsed(value, next) == [ok |-> TRUE, value |-> value, next |-> next]
Unparsed == [ok |-> FALSE, value |-> Scalar("None", <<>>), next |-> 0]

\* the dict items with key set to value: a repeated key keeps its place
\* and takes the later value
with_item(pairs, key, value) ==
    IF \E i \in DOMAIN pairs : pairs[i].items[1] = key
    THEN [i \in DOMAIN pairs |->
            IF pairs[i].items[1] = key THEN FormList(<<key, value>>)
            ELSE pairs[i]]
    ELSE Append(pairs, FormList(<<key, value>>))

\* JSONTranscoder.loads(str_repr): json.loads(str_repr)
json_loads(str_repr) ==
    LET
        RECURSIVE skip_whitespace(_, _)
        \* the position of the first character at or after i that is not a space
        skip_whitespace(s, i) ==
            IF i <= Len(s) /\ s[i] \in {32, 10, 13, 9} THEN skip_whitespace(s, i + 1)
            ELSE i

        \* the value of four hexadecimal digits at s[i..i+3], -1 when they are not
        hex4(s, i) ==
            IF /\ i + 3 <= Len(s)
               /\ \A k \in i..(i + 3) : HexValue(s[k]) >= 0
            THEN 4096 * HexValue(s[i]) + 256 * HexValue(s[i + 1])
                   + 16 * HexValue(s[i + 2]) + HexValue(s[i + 3])
            ELSE 0 - 1

        \* the character an escape letter stands for, -1 for any other letter
        unescaped(c) ==
            CASE c = Ord("\"") -> c
              [] c = Ord("\\") -> c
              [] c = Ord("/") -> c
              [] c = Ord("n") -> 10
              [] c = Ord("r") -> 13
              [] c = Ord("t") -> 9
              [] c = Ord("b") -> 8
              [] c = Ord("f") -> 12
              [] OTHER -> 0 - 1

        RECURSIVE scanstring(_, _, _)
        \* json.decoder.scanstring(s, end): the characters up to the closing quote
        \* with the escapes replaced; control characters are refused (strict)
        scanstring(s, end, chunks) ==
            IF end > Len(s) THEN Unparsed
            ELSE IF s[end] = Ord("\"") THEN Parsed(Scalar("str", chunks), end + 1)
            ELSE IF s[end] < 32 THEN Unparsed
            ELSE IF s[end] # Ord("\\")
                 THEN scanstring(s, end + 1, chunks \o <<s[end]>>)
            ELSE IF end + 1 > Len(s) THEN Unparsed
            ELSE IF s[end + 1] = Ord("u")
                 THEN IF hex4(s, end + 2) < 0 THEN Unparsed
                      ELSE scanstring(s, end + 6, chunks \o <<hex4(s, end + 2)>>)
            ELSE IF unescaped(s[end + 1]) < 0 THEN Unparsed
            ELSE scanstring(s, end + 2, chunks \o <<unescaped(s[end + 1])>>)

        RECURSIVE digits_end(_, _)
        \* the position after the digits that start at i
        digits_end(s, i) ==
            IF i <= Len(s) /\ s[i] \in Ord("0")..Ord("9") THEN digits_end(s, i + 1)
            ELSE i

        \* NUMBER_RE of json.scanner, integers: (-?(?:0|[1-9]\d*)) made an int
        match_number(s, idx, first) ==
            IF first > Len(s) \/ s[first] \notin Ord("0")..Ord("9") THEN Unparsed
            ELSE IF s[first] = Ord("0")
                 THEN Parsed(Scalar("int", <<Ord("0")>>), first + 1)
            ELSE Parsed(Scalar("int", SubSeq(s, idx, digits_end(s, first) - 1)),
                        digits_end(s, first))

        \* whether the word stands at s[idx:]
        stands_at(s, idx, word) ==
            /\ idx + Len(word) - 1 <= Len(s)
            /\ SubSeq(s, idx, idx + Len(word) - 1) = Ascii(word)

        RECURSIVE scan_once(_, _)
        RECURSIVE array_values(_, _, _)
        RECURSIVE array_next(_, _, _)
        RECURSIVE object_key(_, _, _)
        RECURSIVE object_colon(_, _, _)
        RECURSIVE object_value(_, _, _, _)
        RECURSIVE object_item(_, _, _, _)
        RECURSIVE object_next(_, _, _)

        \* JSONArray: after a value, ',' and the next value or the closing ']'
        array_next(s, values, end) ==
            IF end > Len(s) THEN Unparsed
            ELSE IF s[end] = Ord("]") THEN Parsed(Container("list", values), end + 1)
            ELSE IF s[end] = Ord(",")
                 THEN array_values(s, values,
                                   scan_once(s, skip_whitespace(s, end + 1)))
            ELSE Unparsed

        \* JSONArray: the value just scanned is appended
        array_values(s, values, scanned) ==
            IF ~scanned.ok THEN Unparsed
            ELSE array_next(s, Append(values, scanned.value),
                            skip_whitespace(s, scanned.next))

        \* json.decoder.JSONArray, s[end - 1] being '['
        JSONArray(s, end) ==
            IF end <= Len(s) /\ s[end] = Ord("]")
            THEN Parsed(Container("list", <<>>), end + 1)
            ELSE array_values(s, <<>>, scan_once(s, end))

        \* JSONObject: after a pair, ',' and the next key or the closing '}'
        object_next(s, pairs, end) ==
            IF end > Len(s) THEN Unparsed
            ELSE IF s[end] = Ord("}") THEN Parsed(Container("dict", pairs), end + 1)
            ELSE IF s[end] = Ord(",")
                 THEN object_key(s, pairs, skip_whitespace(s, end + 1))
            ELSE Unparsed

        \* JSONObject: the value just scanned is stored under the key
        object_item(s, pairs, key, scanned) ==
            IF ~scanned.ok THEN Unparsed
            ELSE object_next(s, with_item(pairs, key, scanned.value),
                             skip_whitespace(s, scanned.next))

        \* JSONObject: the ':' after a key and the value after it
        object_value(s, pairs, key, end) ==
            IF end <= Len(s) /\ s[end] = Ord(":")
            THEN object_item(s, pairs, key,
                             scan_once(s, skip_whitespace(s, end + 1)))
            ELSE Unparsed

        \* JSONObject: the key just scanned
        object_colon(s, pairs, key) ==
            IF ~key.ok THEN Unparsed
            ELSE object_value(s, pairs, key.value, skip_whitespace(s, key.next))

        \* JSONObject: a key, which must be a string
        object_key(s, pairs, end) ==
            IF end <= Len(s) /\ s[end] = Ord("\"")
            THEN object_colon(s, pairs, scanstring(s, end + 1, <<>>))
            ELSE Unparsed

        \* json.decoder.JSONObject, s[end - 1] being '{'
        JSONObject(s, end) ==
            IF end <= Len(s) /\ s[end] = Ord("}")
            THEN Parsed(Container("dict", <<>>), end + 1)
            ELSE object_key(s, <<>>, end)

        \* json.scanner.py_make_scanner._scan_once(string, idx)
        scan_once(s, idx) ==
            IF idx > Len(s) THEN Unparsed
            ELSE CASE s[idx] = Ord("\"") -> scanstring(s, idx + 1, <<>>)
                   [] s[idx] = Ord("{") -> JSONObject(s, skip_whitespace(s, idx + 1))
                   [] s[idx] = Ord("[") -> JSONArray(s, skip_whitespace(s, idx + 1))
                   [] s[idx] = Ord("n") /\ stands_at(s, idx, <<"n", "u", "l", "l">>) ->
                         Parsed(Scalar("None", <<>>), idx + 4)
                   [] s[idx] = Ord("t") /\ stands_at(s, idx, <<"t", "r", "u", "e">>) ->
                         Parsed(Scalar("bool", <<1>>), idx + 4)
                   [] s[idx] = Ord("f")
                        /\ stands_at(s, idx, <<"f", "a", "l", "s", "e">>) ->
                         Parsed(Scalar("bool", <<0>>), idx + 5)
                   [] s[idx] = Ord("-") -> match_number(s, idx, idx + 1)
                   [] OTHER -> match_number(s, idx, idx)

        \* JSONDecoder.decode: one value and nothing but whitespace after it
        decode_whole(s, scanned) ==
            IF scanned.ok /\ skip_whitespace(s, scanned.next) > Len(s)
            THEN Returned(scanned.value)
            ELSE Raised("JSONDecodeError")
    IN
    decode_whole(str_repr, scan_once(str_repr, skip_whitespace(str_repr, 1)))

\* TextContentHandler.from_bytes(data) of the JSONTranscoder, utf-8
json_from_bytes(data) ==
    LET
        \* self._loads(data.decode(encoding or self.default_encoding))
        loads_decoded(decoded) ==
            IF decoded.kind = "raise" THEN decoded ELSE json_loads(decoded.value.v)
    IN
    loads_decoded(decoded_or_error(utf8_from(data, 1)))

\* ------------------------------------------- transcoders.py, MsgPack
RECURSIVE normalize_datum(_)
\* MsgPackTranscoder.normalize_datum(datum)
normalize_datum(datum) ==
    LET
        \* raise TypeError('{} is not msgpackable'.format(datum.__class__.__name__))
        not_msgpackable(obj) ==
            [kind |-> "raise", exc |-> "TypeError", status |-> 0,
             value |-> [tag |-> "is not msgpackable", class_name |-> obj.t]]

        \* out[k] = self.normalize_datum(v)
        normalized_pair(key, value) ==
            IF value.kind = "raise" THEN value
            ELSE Returned(Container("list", <<key, value.value>>))

        RECURSIVE HoldsMemoryview(_)
        \* the value is a memoryview or holds one at some depth
        HoldsMemoryview(value) ==
            \/ value.t = "memoryview"
            \/ \E i \in DOMAIN value.items : HoldsMemoryview(value.items[i])

        \* dataclasses.asdict(datum): the fields as a dict, every value in them
        \* copied with copy.deepcopy, which raises TypeError('cannot pickle
        \* memoryview objects') for a memoryview
        asdict(obj) ==
            IF HoldsMemoryview(obj)
            THEN [kind |-> "raise", exc |-> "TypeError", status |-> 0,
                  value |-> [tag |-> "cannot pickle", class_name |-> "memoryview"]]
            ELSE Returned(Container("dict", obj.items))

        \* the values of a mapping normalized
        normalize_mapping(asdict_outcome) ==
            IF asdict_outcome.kind = "raise" THEN asdict_outcome
            ELSE rebuilt("dict",
                         collect([i \in DOMAIN asdict_outcome.value.items |->
                                    normalized_pair(
                                        asdict_outcome.value.items[i].items[1],
                                        normalize_datum(
                                            asdict_outcome.value.items[i].items[2]))]))
    IN
    CASE datum.t = "None" -> Returned(datum)
      [] datum.t = "decimal" -> Returned(Scalar("float", datum.v))
      [] datum.t \in {"bool", "int", "float"} -> Returned(datum)
      [] datum.t \in {"uuid", "datetime", "ipaddress"} ->
            Returned(Scalar("str", datum.v))
      [] datum.t \in {"bytearray", "memoryview"} ->
            Returned(Scalar("bytes", datum.v))
      [] datum.t \in {"bytes", "str"} -> Returned(datum)
      [] datum.t \in {"list", "tuple", "set"} ->
            rebuilt("list", collect([i \in DOMAIN datum.items |->
                                       normalize_datum(datum.items[i])]))
      [] datum.t = "dataclass" -> normalize_mapping(asdict(datum))
      [] datum.t = "dict" -> normalize_mapping(Returned(datum))
      [] OTHER -> not_msgpackable(datum)

\* ------------------------------------ umsgpack, as called by packb/unpackb
RECURSIVE in_base(_, _, _)
\* the number written by digits in base, written in new_base, <<>> for zero
in_base(digits, base, new_base) ==
    LET
        RECURSIVE quotient_from(_, _, _, _, _)
        \* long division of the number written by digits in base: the digits of
        \* the quotient from position i on, carry being what is left so far
        quotient_from(dividend, radix, divisor, i, carry) ==
            IF i > Len(dividend) THEN <<>>
            ELSE <<(carry * radix + dividend[i]) \div divisor>>
                   \o quotient_from(dividend, radix, divisor, i + 1,
                                    (carry * radix + dividend[i]) % divisor)

        RECURSIVE remainder_from(_, _, _, _, _)
        \* the remainder of the same division
        remainder_from(dividend, radix, divisor, i, carry) ==
            IF i > Len(dividend) THEN carry
            ELSE remainder_from(dividend, radix, divisor, i + 1,
                                (carry * radix + dividend[i]) % divisor)
    IN
    IF \A i \in DOMAIN digits : digits[i] = 0 THEN <<>>
    ELSE in_base(quotient_from(digits, base, new_base, 1, 0), base, new_base)
           \o <<remainder_from(digits, base, new_base, 1, 0)>>

RECURSIVE add_one(_)
\* the octets of the number plus one, of the same width
add_one(octets) ==
    IF octets = <<>> THEN <<>>
    ELSE IF octets[Len(octets)] = 255
         THEN add_one(SubSeq(octets, 1, Len(octets) - 1)) \o <<0>>
    ELSE SubSeq(octets, 1, Len(octets) - 1) \o <<octets[Len(octets)] + 1>>

\* two's complement of the octets, of the same width
negated(octets) == add_one([i \in DOMAIN octets |-> 255 - octets[i]])

RECURSIVE umsgpack_packb(_)
\* umsgpack.packb(obj): the nil, bool, int, str, bin, array and map
\* formats (the float formats are left out)
umsgpack_packb(obj) ==
    LET
        \* whether the text of an int starts with '-'
        is_negative(text) == text # <<>> /\ text[1] = Ord("-")

        \* abs(obj) of an int as big-endian octets, <<>> for zero
        octets_of(text) ==
            in_base([i \in 1..(Len(text) - (IF is_negative(text) THEN 1 ELSE 0)) |->
                        text[i + (IF is_negative(text) THEN 1 ELSE 0)] - Ord("0")],
                    10, 256)

        \* octets widened to n octets with zeros in front
        padded(octets, n) ==
            [i \in 1..n |->
                IF i <= n - Len(octets) THEN 0 ELSE octets[i - (n - Len(octets))]]

        \* whether minus the number of those octets is at least -2**(8n - 1)
        fits_signed(octets, n) ==
            \/ Len(octets) < n
            \/ /\ Len(octets) = n
               /\ \/ octets[1] < 128
                  \/ octets[1] = 128 /\ \A i \in 2..n : octets[i] = 0

        \* umsgpack._pack_integer(obj), obj given by its sign and abs(obj)
        pack_signed(negative, octets) ==
            IF negative
            THEN IF Len(octets) = 1 /\ octets[1] <= 32
                 THEN Returned(<<256 - octets[1]>>)
                 ELSE IF fits_signed(octets, 1)
                 THEN Returned(<<208>> \o negated(padded(octets, 1)))
                 ELSE IF fits_signed(octets, 2)
                 THEN Returned(<<209>> \o negated(padded(octets, 2)))
                 ELSE IF fits_signed(octets, 4)
                 THEN Returned(<<210>> \o negated(padded(octets, 4)))
                 ELSE IF fits_signed(octets, 8)
                 THEN Returned(<<211>> \o negated(padded(octets, 8)))
                 ELSE Raised("UnsupportedTypeException")
            ELSE IF Len(octets) = 0 THEN Returned(<<0>>)
                 ELSE IF Len(octets) = 1 /\ octets[1] < 128 THEN Returned(octets)
                 ELSE IF Len(octets) = 1 THEN Returned(<<204>> \o octets)
                 ELSE IF Len(octets) = 2 THEN Returned(<<205>> \o octets)
                 ELSE IF Len(octets) <= 4 THEN Returned(<<206>> \o padded(octets, 4))
                 ELSE IF Len(octets) <= 8 THEN Returned(<<207>> \o padded(octets, 8))
                 ELSE Raised("UnsupportedTypeException")

        \* umsgpack._pack_integer(obj)
        _pack_integer(item) == pack_signed(is_negative(item.v), octets_of(item.v))

        \* the octets behind the header of a str or bytes of fewer than 256 octets
        pack_sized(short, long, octets) ==
            IF Len(octets) < 32 /\ short >= 0
            THEN Returned(<<short + Len(octets)>> \o octets)
            ELSE IF Len(octets) < 256
            THEN Returned(<<long, Len(octets)>> \o octets)
            ELSE Raised("UnsupportedTypeException")

        \* umsgpack._pack_string(obj): obj.encode('utf-8') behind fixstr or str 8
        _pack_string(item) == pack_sized(160, 217, str_encode(item.v, "utf-8").value)

        \* umsgpack._pack_binary(obj): the octets behind bin 8
        _pack_binary(item) == pack_sized(0 - 1, 196, item.v)

        \* the header of an array or map of fewer than 16 elements and the packed
        \* elements behind it
        pack_elements(header, count, packed) ==
            IF packed.kind = "raise" THEN packed
            ELSE IF count >= 16 THEN Raised("UnsupportedTypeException")
            ELSE Returned(<<header + count>> \o Join(packed.value))

        \* a packed key followed by the packed value
        packed_pair(key, value) ==
            IF key.kind = "raise" THEN key
            ELSE IF value.kind = "raise" THEN value
            ELSE Returned(key.value \o value.value)
    IN
    CASE obj.t = "None" -> Returned(<<192>>)
      [] obj.t = "bool" -> Returned(IF obj.v = <<1>> THEN <<195>> ELSE <<194>>)
      [] obj.t = "int" -> _pack_integer(obj)
      [] obj.t = "str" -> _pack_string(obj)
      [] obj.t = "bytes" -> _pack_binary(obj)
      [] obj.t \in {"list", "tuple"} ->
            pack_elements(144, Len(obj.items),
                          collect([i \in DOMAIN obj.items |->
                                     umsgpack_packb(obj.items[i])]))
      [] obj.t = "dict" ->
            pack_elements(128, Len(obj.items),
                          collect([i \in DOMAIN obj.items |->
                                     packed_pair(
                                        umsgpack_packb(obj.items[i].items[1]),
                                        umsgpack_packb(obj.items[i].items[2]))]))
      [] obj.t \notin {"None", "bool", "int", "float", "str", "bytes", "list",
                        "tuple", "dict"} ->
            Raised("UnsupportedTypeException")

\* MsgPackTranscoder.packb(data)
packb(data) ==
    LET
        \* umsgpack.packb(self.normalize_datum(data))
        packb_normalized(normalized) ==
            IF normalized.kind = "raise" THEN normalized
            ELSE umsgpack_packb(normalized.value)
    IN
    packb_normalized(normalize_datum(data))

\* BinaryContentHandler.to_bytes(inst_data) of the MsgPackTranscoder
msgpack_to_bytes(inst_data) ==
    LET
        \* the content type and the packed bytes
        binary_packed(content_type, packed) ==
            IF packed.kind = "raise" THEN packed
            ELSE Returned([content_type |-> content_type, data_bytes |-> packed.value])
    IN
    binary_packed("application/msgpack", packb(inst_data))

\* the octets read, left as bytes
unpacked_string_as_bytes(read) == read

\* umsgpack._unpack_string: the octets read decoded as UTF-8
unpacked_string(read) ==
    IF ~read.ok THEN Unparsed
    ELSE IF decoded_or_error(utf8_from(read.value.v, 1)).kind = "raise"
    THEN Unparsed
    ELSE Parsed(decoded_or_error(utf8_from(read.value.v, 1)).value, read.next)

\* MsgPackTranscoder.unpackb(data)
unpackb(data) ==
    LET
        \* str(n) of the int of that sign and those big-endian octets
        int_text(negative, octets) ==
            IF \A i \in DOMAIN octets : octets[i] = 0 THEN <<Ord("0")>>
            ELSE (IF negative THEN <<Ord("-")>> ELSE <<>>)
                   \o [i \in DOMAIN in_base(octets, 256, 10) |->
                         Ord("0") + in_base(octets, 256, 10)[i]]

        \* n octets read at position i, when there are that many
        read_octets(packed, i, n) ==
            IF i + n - 1 <= Len(packed)
            THEN Parsed(Scalar("bytes", SubSeq(packed, i, i + n - 1)), i + n)
            ELSE Unparsed

        \* umsgpack._unpack_integer: the octets read as an unsigned or signed int
        unpacked_integer(signed, read) ==
            IF ~read.ok THEN Unparsed
            ELSE IF signed /\ read.value.v[1] >= 128
            THEN Parsed(Scalar("int", int_text(TRUE, negated(read.value.v))),
                        read.next)
            ELSE Parsed(Scalar("int", int_text(FALSE, read.value.v)), read.next)

        \* the length octet at position i and that many octets behind it
        read_sized(packed, i) ==
            IF i <= Len(packed) THEN read_octets(packed, i + 1, packed[i]) ELSE Unparsed

        RECURSIVE _unpack(_, _)
        RECURSIVE unpack_array(_, _, _, _)
        RECURSIVE array_item(_, _, _, _)
        RECURSIVE unpack_map(_, _, _, _)
        RECURSIVE map_key(_, _, _, _)
        RECURSIVE map_item(_, _, _, _, _)
        \* umsgpack._unpack_array: the element just unpacked is appended
        array_item(packed, count, values, unpacked) ==
            IF ~unpacked.ok THEN Unparsed
            ELSE unpack_array(packed, count - 1, Append(values, unpacked.value),
                              unpacked.next)

        \* umsgpack._unpack_array: count more elements from position i
        unpack_array(packed, count, values, i) ==
            IF count = 0 THEN Parsed(Container("list", values), i)
            ELSE array_item(packed, count, values, _unpack(packed, i))

        \* umsgpack._unpack_map: the value just unpacked is stored under the key
        map_item(packed, count, pairs, key, unpacked) ==
            IF ~unpacked.ok THEN Unparsed
            ELSE unpack_map(packed, count - 1, with_item(pairs, key, unpacked.value),
                            unpacked.next)

        \* umsgpack._unpack_map: the key just unpacked, which must be hashable
        map_key(packed, count, pairs, key) ==
            IF ~key.ok \/ key.value.t \in {"list", "dict"} THEN Unparsed
            ELSE map_item(packed, count, pairs, key.value, _unpack(packed, key.next))

        \* umsgpack._unpack_map: count more pairs from position i
        unpack_map(packed, count, pairs, i) ==
            IF count = 0 THEN Parsed(Container("dict", pairs), i)
            ELSE map_key(packed, count, pairs, _unpack(packed, i))

        \* umsgpack._unpack: the value whose first octet is at position i
        _unpack(packed, i) ==
            IF i > Len(packed) THEN Unparsed
            ELSE CASE packed[i] < 128 -> Parsed(Scalar("int", int_text(FALSE, <<packed[i]>>)), i + 1)
                   [] packed[i] \in 128..143 -> unpack_map(packed, packed[i] - 128, <<>>, i + 1)
                   [] packed[i] \in 144..159 -> unpack_array(packed, packed[i] - 144, <<>>, i + 1)
                   [] packed[i] \in 160..191 ->
                         unpacked_string(read_octets(packed, i + 1, packed[i] - 160))
                   [] packed[i] = 192 -> Parsed(Scalar("None", <<>>), i + 1)
                   [] packed[i] = 194 -> Parsed(Scalar("bool", <<0>>), i + 1)
                   [] packed[i] = 195 -> Parsed(Scalar("bool", <<1>>), i + 1)
                   [] packed[i] = 196 -> read_sized(packed, i + 1)
                   [] packed[i] = 204 -> unpacked_integer(FALSE, read_octets(packed, i + 1, 1))
                   [] packed[i] = 205 -> unpacked_integer(FALSE, read_octets(packed, i + 1, 2))
                   [] packed[i] = 206 -> unpacked_integer(FALSE, read_octets(packed, i + 1, 4))
                   [] packed[i] = 207 -> unpacked_integer(FALSE, read_octets(packed, i + 1, 8))
                   [] packed[i] = 208 -> unpacked_integer(TRUE, read_octets(packed, i + 1, 1))
                   [] packed[i] = 209 -> unpacked_integer(TRUE, read_octets(packed, i + 1, 2))
                   [] packed[i] = 210 -> unpacked_integer(TRUE, read_octets(packed, i + 1, 4))
                   [] packed[i] = 211 -> unpacked_integer(TRUE, read_octets(packed, i + 1, 8))
                   [] packed[i] = 217 -> unpacked_string(read_sized(packed, i + 1))
                   [] packed[i] >= 224 ->
                         Parsed(Scalar("int", int_text(TRUE, <<256 - packed[i]>>)), i + 1)
                   [] OTHER -> Unparsed

        \* umsgpack.unpackb(s): the first value of s
        unpacked_or_error(unpacked) ==
            IF unpacked.ok THEN Returned(unpacked.value)
            ELSE Raised("UnpackException")
    IN
    unpacked_or_error(_unpack(data, 1))

\* BinaryContentHandler.from_bytes(data_bytes) of the MsgPackTranscoder
msgpack_from_bytes(data_bytes) == unpackb(data_bytes)

\* ------------------------------------------- the transcoders, as one
\* transcoder.to_bytes(inst_data)
transcoder_to_bytes(transcoder, inst_data) ==
    CASE transcoder.cls = "JSONTranscoder" -> json_to_bytes(inst_data)
      [] transcoder.cls = "MsgPackTranscoder" -> msgpack_to_bytes(inst_data)
      [] transcoder.cls = "FormUrlEncodedTranscoder" ->
            form_to_bytes(transcoder.options, inst_data)

\* transcoder.from_bytes(data_bytes)
transcoder_from_bytes(transcoder, data_bytes) ==
    CASE transcoder.cls = "JSONTranscoder" -> json_from_bytes(data_bytes)
      [] transcoder.cls = "MsgPackTranscoder" -> msgpack_from_bytes(data_bytes)
      [] transcoder.cls = "FormUrlEncodedTranscoder" ->
            form_from_bytes(transcoder.options, data_bytes)

\* ------------------------------------------------- ContentSettings
\* ContentSettings.__init__
NewContentSettings ==
    [_handlers |-> <<>>, _available_types |-> <<>>,
     _default_content_type |-> None, default_encoding |-> None]

\* __getitem__ that looks the string up as given, as ContentSettings.get does
getitem_unparsed(cs, content_type) ==
    IF content_type \in DOMAIN cs._handlers
    THEN Returned(cs._handlers[content_type])
    ELSE Raised("KeyError")

\* ContentSettings.__getitem__(content_type)
getitem(cs, content_type) ==
    LET parsed == parse_content_type(content_type)
    IN  IF parsed = ValueError THEN Raised("ValueError")
        ELSE IF Str(parsed) \in DOMAIN cs._handlers
             THEN Returned(cs._handlers[Str(parsed)])
             ELSE Raised("KeyError")

\* __setitem__ without the early return: the later registration wins
setitem_overwriting(cs, content_type, handler) ==
    LET parsed == parse_content_type(content_type)
        key == Str(parsed)
    IN  [cs EXCEPT !._available_types = Append(@, parsed),
                   !._handlers = (key :> handler) @@ @]

\* __setitem__ that appends to the list before it looks for the key
setitem_appending_first(cs, content_type, handler) ==
    LET parsed == parse_content_type(content_type)
        key == Str(parsed)
    IN  IF key \in DOMAIN cs._handlers
        THEN [cs EXCEPT !._available_types = Append(@, parsed)]
        ELSE [cs EXCEPT !._available_types = Append(@, parsed),
                        !._handlers = (key :> handler) @@ @]

\* ContentSettings.__setitem__(content_type, handler)
setitem(cs, content_type, handler) ==
    LET parsed == parse_content_type(content_type)
        key == Str(parsed)
    IN  IF key \in DOMAIN cs._handlers THEN cs
        ELSE [cs EXCEPT !._available_types = Append(@, parsed),
                        !._handlers = (key :> handler) @@ @]

\* ------------------------------------------------------------- inputs
MediaType(t, sub) == Text(<< <<t>>, sub >>, <<>>)

ApplicationJson == MediaType("application", <<"json">>)
ApplicationMsgpack == MediaType("application", <<"msgpack">>)
ApplicationXml == MediaType("application", <<"xml">>)
VendorJson == MediaType("application", <<"vendor", "json">>)
Wildcard == MediaType("*", <<"*">>)
\* 'application-json': no '/' in it
Malformed == Text(<< <<"application-json">> >>, <<>>)

\* content types an application registers transcoders under
RegisteredAs ==
    { None,
      Text(ApplicationJson.main, <<Param("b", "2"), Param("a", "1")>>),
      Text(ApplicationJson.main, <<Param("a", "1"), Param("B", "2")>>),
      Text(ApplicationJson.main, <<Param("a", "1")>>),
      VendorJson }

JSONTranscoder == TextContentHandler(ApplicationJson, "json", Encoding("utf-8"))
MsgPackTranscoder == BinaryContentHandler(ApplicationMsgpack, "msgpack")

Transcoders == {JSONTranscoder, MsgPackTranscoder}

\* (default content type, default encoding) pairs an application configures
Defaults == { <<None, None>>, <<ApplicationJson, Encoding("utf-8")>>,
              <<ApplicationXml, None>> }

\* an Accept header value: its comma-separated entries
Accept(entries) == [entries |-> entries]

AcceptHeaders == { None, Accept(<<ApplicationXml>>),
                   Accept(<<ApplicationJson>>), Accept(<<Wildcard>>) }

\* content types looked up in the registry
LookedUp == (RegisteredAs \ {None}) \cup {ApplicationJson, ApplicationMsgpack}

ContentTypeHeaders ==
    { None, ApplicationJson, ApplicationXml, VendorJson, Malformed,
      Text(ApplicationJson.main, <<Param("a", "1")>>) }

RequestBodies == { Bytes("json", Dict), Bytes("json", None),
                   Bytes("xml", Dict) }

ResponseBodies == { Dict, Object }

TextXml == MediaType("text", <<"xml">>)

\* an Accept entry with a quality value: 'type/subtype;q=value'
WithQ(content_type, q) ==
    Text(content_type.main, content_type.params \o <<Param("q", q)>>)

\* content types the transcoders are registered under when responses are
\* negotiated over wildcards and quality values
NegotiatedAs == { None, VendorJson, TextXml }

\* Accept headers with wildcards and quality values
NegotiationHeaders ==
    LET
        ApplicationAny == MediaType("application", <<"*">>)

        TextAny == MediaType("text", <<"*">>)
    IN
    { None,
      Accept(<<Wildcard>>),
      Accept(<<ApplicationAny>>),
      Accept(<<WithQ(ApplicationJson, "0.5"), Wildcard>>),
      Accept(<<Wildcard, WithQ(VendorJson, "0.5")>>),
      Accept(<<WithQ(ApplicationAny, "0.5"), Wildcard>>),
      Accept(<<WithQ(ApplicationJson, "0.5"), ApplicationMsgpack>>),
      Accept(<<ApplicationJson, WithQ(ApplicationMsgpack, "0.5")>>),
      Accept(<<WithQ(ApplicationAny, "0.5"), TextAny>>),
      Accept(<<ApplicationAny, WithQ(TextAny, "0.5")>>),
      Accept(<<WithQ(TextXml, "0.5"), ApplicationAny>>) }

\* 'application/foo+json', a Content-Type a handler sets by itself
FooJson == MediaType("application", <<"foo", "json">>)

\* content types the transcoders of a handler's application are
\* registered under
HandledAs == { None, VendorJson }

\* bodies a handler sends
SentBodies == ResponseBodies \cup { Huge }

\* Content-Type headers of the requests that are responded to
RespondedTo == { ApplicationJson, ApplicationMsgpack }

\* the byte strings of at most MaxFormLen octets
FormBodies ==
    LET
        \* the octets request bodies of forms are made of: a letter that is also
        \* a hexadecimal digit, a digit, the separators, the escape characters and
        \* an octet that is not ASCII
        FormOctets ==
            { Ord("a"), Ord("4"), Ord("="), Ord("&"), Ord("%"), Ord("+"), 255 }
    IN
    UNION { [1..n -> FormOctets] : n \in 0..MaxFormLen }

\* the options of the transcoders that decode
DecodeOptions ==
    { FormUrlEncodingOptions("utf-8", FALSE, DefaultLiterals, space_as_plus) :
        space_as_plus \in BOOLEAN }

\* the name of the i-th field of a mapping, a str
FieldName(i) ==
    LET
        \* the names of the fields of a mapping, in the order they are inserted
        FieldNames == <<"a", "b", "c", "e", "f">>
    IN
    FormStr(<<Ord(FieldNames[i])>>)

\* FormUrlEncodingOptions.literal_mapping after literal_mapping.clear()
EmptyLiterals == [literal \in {} |-> <<>>]

\* object(): str() gives '<object ...>', written here without the address
PlainObject == Scalar("object", Ascii(<<"<", "o", "b", "j", "e", "c", "t", ">">>))

\* values to_bytes has no rule for, next to values it has one for
UnsupportedInputs ==
    LET
        \* the elements of the sequences: 1, 2, 3 and a plain object
        Elements ==
            { FormInt(Decimal(n)) : n \in 1..3 } \cup {PlainObject}

        \* the lists, tuples and sets of at most MaxItems elements; the elements
        \* of a set are distinct
        Collections ==
            UNION { { [t |-> kind, v |-> <<>>, items |-> items] :
                        items \in { q \in [1..n -> Elements] :
                                      kind = "set" =>
                                        \A i, j \in 1..n : q[i] = q[j] => i = j } } :
                    kind \in {"list", "tuple", "set"}, n \in 0..MaxItems }

        \* {'a': value} for a plain object, a literal, a number or a collection
        SingleFields ==
            { FormDict(<< <<FieldName(1), value>> >>) :
                value \in {PlainObject, FormNone, FormBool(TRUE), FormBool(FALSE),
                           FormInt(Decimal(12)),
                           FormList(<<FormInt(Decimal(1)), FormInt(Decimal(2))>>)} }
    IN
    Collections \cup SingleFields
      \cup {PlainObject, FormNone, FormBool(TRUE), FormBool(FALSE)}

\* the options of the transcoders given them: the default literal table
\* or the empty one
UnsupportedOptions ==
    { FormUrlEncodingOptions("utf-8", encode_sequences, literal_mapping,
                             space_as_plus) :
        encode_sequences \in BOOLEAN,
        literal_mapping \in {DefaultLiterals, EmptyLiterals},
        space_as_plus \in BOOLEAN }

\* the values handed to the JSON transcoder
JsonInputs ==
    LET
        \* the octets of the byte sequences: 'a', 0xC3, 0xBF and 0xFF (0xC3 0xBF
        \* is U+00FF in UTF-8, 0xFF alone is not UTF-8)
        SomeOctets == {Ord("a"), 195, 191, 255}

        \* bytes, bytearray and memoryview values of at most MaxOctets octets
        ByteValues ==
            UNION { { Scalar(t, octets) : octets \in [1..n -> SomeOctets] } :
                    t \in ByteTypes, n \in 0..MaxOctets }

        \* values json.dumps knows, values the hook converts and a plain object
        OtherJsonValues ==
            { FormNone, FormBool(TRUE), FormInt(Decimal(12)),
              FormStr(<<Ord("a"), Ord("\""), 255>>),
              Scalar("uuid", Ascii(<<"a", "b", "-", "c">>)), PlainObject,
              Container("set", <<FormInt(Decimal(1))>>) }

        \* a value on its own, in a list, in a tuple, in a mapping, in a list in a
        \* mapping and in a list in a list
        Nested(value) ==
            { value, FormList(<<value>>), Container("tuple", <<value>>),
              FormDict(<< <<FieldName(1), value>> >>),
              FormDict(<< <<FieldName(1), FormList(<<value>>)>> >>),
              FormList(<<FormList(<<value>>)>>) }
    IN
    UNION { Nested(value) : value \in ByteValues \cup OtherJsonValues }

\* the values handed to normalize_datum
NormalizeInputs ==
    LET
        \* one value of every kind normalize_datum knows that holds no other
        \* value, and two it does not know: a plain object and a complex number
        Leaves ==
            { FormNone, FormBool(TRUE), FormInt(Decimal(12)),
              Scalar("float", Ascii(<<"0", ".", "4">>)),
              Scalar("decimal", Ascii(<<"0", ".", "4">>)),
              FormStr(Ascii(<<"a">>)), Scalar("bytes", <<255>>),
              Scalar("bytearray", <<255>>), Scalar("memoryview", <<255>>),
              Scalar("uuid", Ascii(<<"a", "b", "-", "c">>)),
              Scalar("datetime", Ascii(<<"0", "T", "0">>)),
              Scalar("ipaddress", Ascii(<<"0", ".", "0", ".", "0", ".", "0">>)),
              Scalar("object", <<>>), Scalar("complex", <<>>) }

        \* the sequences, sets, mappings and dataclasses of at most MaxHeld
        \* of the given values, mappings keyed 'a', 'b', ...
        Holding(values) ==
            UNION { { Container(t, [i \in 1..n |->
                                      IF t \in {"dict", "dataclass"}
                                      THEN FormList(<<FieldName(i), held[i]>>)
                                      ELSE held[i]]) :
                        held \in [1..n -> values] } :
                    t \in {"list", "tuple", "set", "dict", "dataclass"},
                    n \in 0..MaxHeld }

        \* a container of one leaf, on its own and inside each kind of container
        Deeper ==
            UNION { { Container(t, << IF t \in {"dict", "dataclass"}
                                      THEN FormList(<<FieldName(1), inner>>)
                                      ELSE inner >>) :
                        t \in {"list", "tuple", "set", "dict", "dataclass"} } :
                    inner \in { held \in Holding(Leaves) : Len(held.items) = 1 } }

        \* a mapping with a key normalize_datum does not know
        ObjectKeyed == FormDict(<< <<Scalar("object", <<>>), FormNone>> >>)

        \* a list of a dataclass with a memoryview field and a plain object
        AfterMemoryview ==
            FormList(<< Container("dataclass",
                                  << FormList(<<FieldName(1),
                                                Scalar("memoryview", <<255>>)>>) >>),
                        Scalar("object", <<>>) >>)
    IN
    Leaves \cup Holding(Leaves) \cup Deeper \cup {ObjectKeyed, AfterMemoryview}

\* the text of an int whose decimal digits are given
DecimalText(negative, digits) ==
    (IF negative THEN <<Ord("-")>> ELSE <<>>)
      \o [i \in DOMAIN digits |-> Ord("0") + digits[i]]

\* the values handed to to_bytes whose decoded bytes are compared with them
RoundTripInputs ==
    LET
        \* 2**64 - 1 and 2**64, -2**63 and -2**63 - 1
        Limits ==
            { Scalar("int", DecimalText(FALSE, <<1,8,4,4,6,7,4,4,0,7,3,7,0,9,5,5,1,6,1,5>>)),
              Scalar("int", DecimalText(FALSE, <<1,8,4,4,6,7,4,4,0,7,3,7,0,9,5,5,1,6,1,6>>)),
              Scalar("int", DecimalText(TRUE, <<9,2,2,3,3,7,2,0,3,6,8,5,4,7,7,5,8,0,8>>)),
              Scalar("int", DecimalText(TRUE, <<9,2,2,3,3,7,2,0,3,6,8,5,4,7,7,5,8,0,9>>)) }

        \* None, the booleans, ints of every width and strs: empty, plain, with a
        \* space, with the characters the formats escape, of digits, not ASCII
        Simple ==
            { FormNone, FormBool(TRUE), FormBool(FALSE),
              FormInt(DecimalText(FALSE, <<0>>)), FormInt(DecimalText(FALSE, <<7>>)),
              FormInt(DecimalText(TRUE, <<1>>)), FormInt(DecimalText(FALSE, <<2, 0, 0>>)),
              FormInt(DecimalText(TRUE, <<2, 0, 0>>)),
              FormInt(DecimalText(FALSE, <<7, 0, 0, 0, 0>>)),
              FormStr(<<>>), FormStr(<<Ord("a")>>), FormStr(Ascii(<<"a", " ", "b">>)),
              FormStr(Ascii(<<"\"", "\\", "=", "&", "+", "%">>)),
              FormStr(DecimalText(FALSE, <<7>>)), FormStr(<<233>>) }
              \cup Limits

        \* the values most containers hold
        Usual == { FormNone, FormBool(TRUE), FormInt(DecimalText(FALSE, <<7>>)),
                 FormStr(<<>>), FormStr(<<Ord("a")>>) }

        \* the lists and the mappings keyed 'a', 'b', ... of at most MaxHeld of the
        \* given values
        ListsAndDicts(values) ==
            UNION { { Container(t, [i \in 1..n |->
                                      IF t = "dict"
                                      THEN FormList(<<FieldName(i), held[i]>>)
                                      ELSE held[i]]) :
                        held \in [1..n -> values] } :
                    t \in {"list", "dict"}, n \in 0..MaxHeld }

        \* a list or mapping of one value, and a mapping keyed by a str that is
        \* not a plain word
        OneOf(value) ==
            { FormList(<<value>>), FormDict(<< <<FieldName(1), value>> >>),
              FormDict(<< <<FormStr(<<233, Ord("="), Ord(" ")>>), value>> >>) }
    IN
    Simple \cup ListsAndDicts(Usual)
      \cup UNION { OneOf(value) : value \in Simple }
      \cup UNION { OneOf(inner) : inner \in UNION { OneOf(value) : value \in Usual } }

\* the transcoders: JSONTranscoder(), MsgPackTranscoder() and
\* FormUrlEncodedTranscoder(space_as_plus=...)
Instances ==
    { [cls |-> "JSONTranscoder", options |-> None],
      [cls |-> "MsgPackTranscoder", options |-> None] }
      \cup { [cls |-> "FormUrlEncodedTranscoder", options |-> options] :
                options \in DecodeOptions }

\* the values handed to to_bytes
EncodeInputs ==
    LET
        \* the values of the fields: the literals, the empty string, 'a '
        FieldValues ==
            { FormNone, FormBool(TRUE), FormBool(FALSE), FormStr(<<>>),
              FormStr(Ascii(<<"a", " ">>)) }

        \* the mappings of at most MaxFields fields
        Mappings ==
            UNION { { FormDict([i \in 1..n |-> <<FieldName(i), fields[i]>>]) :
                        fields \in [1..n -> FieldValues] } : n \in 0..MaxFields }

        \* {'a': bytes([c])} and {bytes([c]): 'a'} for every octet c
        OctetFields ==
            { FormDict(<< <<FieldName(1), Scalar("bytes", <<c>>)>> >>) : c \in 0..255 }
              \cup { FormDict(<< <<Scalar("bytes", <<c>>), FormStr(Ascii(<<"a">>))>> >>) :
                         c \in 0..255 }

        \* values that are not sequences of pairs: bytes([c]), the literals, 'a ',
        \* the character U+00FF, 12
        Primitives ==
            { Scalar("bytes", <<c>>) : c \in 0..255 }
              \cup { FormNone, FormBool(TRUE), FormBool(FALSE),
                     FormStr(Ascii(<<"a", " ">>)), FormStr(<<255>>),
                     FormInt(Decimal(12)) }

        \* [('', ''), ('', True), ('', False), ('', None), ('a', None)]
        PairList ==
            FormList(<< FormList(<<FormStr(<<>>), FormStr(<<>>)>>),
                        FormList(<<FormStr(<<>>), FormBool(TRUE)>>),
                        FormList(<<FormStr(<<>>), FormBool(FALSE)>>),
                        FormList(<<FormStr(<<>>), FormNone>>),
                        FormList(<<FieldName(1), FormNone>>) >>)
    IN
    Mappings \cup OctetFields \cup Primitives \cup {PairList}

\* the options of the transcoders that encode
EncodeOptions ==
    { FormUrlEncodingOptions(encoding, FALSE, DefaultLiterals, space_as_plus) :
        encoding \in {"utf-8", "latin-1"}, space_as_plus \in BOOLEAN }

\* -------------------------------------------------------------- state
VARIABLES
    settings,              \* application.settings[SETTINGS_KEY], or None
    request,               \* the request of the current handler, or None
    _request_body,         \* ContentMixin._request_body
    _best_response_match,  \* ContentMixin._best_response_match
    response,              \* headers set and chunks written by the handler
    calls,                 \* per request: calls made, matcher and decoder runs
    last                   \* the operation performed last and its outcome

vars == <<settings, request, _request_body, _best_response_match,
          response, calls, last>>

NoCalls == [methods |-> 0, select_content_type |-> 0, from_bytes |-> 0]

NoResponse == [content_type |-> None, vary |-> 0, written |-> <<>>]

Op(name, arg, outcome) == [op |-> name, arg |-> arg, outcome |-> outcome]

Init ==
    /\ settings = None
    /\ request = None
    /\ _request_body = None
    /\ _best_response_match = None
    /\ response = NoResponse
    /\ calls = NoCalls
    /\ last = Op("init", None, Returned(None))

\* ---------------------------------------------- module-level functions
\* an install that stores a new ContentSettings every time
install_replacing(app_settings, default_content_type, encoding) ==
    [NewContentSettings EXCEPT
        !._default_content_type = default_content_type,
        !.default_encoding = encoding]

\* install(application, default_content_type, encoding): the settings
\* object stored afterwards
install(app_settings, default_content_type, encoding) ==
    IF app_settings # None THEN app_settings
    ELSE [NewContentSettings EXCEPT
             !._default_content_type = default_content_type,
             !.default_encoding = encoding]

\* get_settings(application, force_instance=True): the settings object
\* stored afterwards
get_settings_forced(app_settings) ==
    IF app_settings # None THEN app_settings
    ELSE install(app_settings, None, None)

Install(default_content_type, encoding) ==
    /\ settings' = install(settings, default_content_type, encoding)
    /\ last' = Op("install", default_content_type, Returned(settings'))
    /\ UNCHANGED <<request, _request_body, _best_response_match,
                   response, calls>>

\* get_settings(application, force_instance)
GetSettings(force_instance) ==
    /\ settings' = IF force_instance THEN get_settings_forced(settings)
                   ELSE settings
    /\ last' = Op("get_settings", [force_instance |-> force_instance],
                  Returned(settings'))
    /\ UNCHANGED <<request, _request_body, _best_response_match,
                   response, calls>>

\* add_transcoder(application, transcoder, content_type)
AddTranscoder(transcoder, content_type) ==
    LET cs == get_settings_forced(settings)
        key == IF content_type # None THEN content_type
               ELSE transcoder.content_type
    IN  /\ \/ Len(cs._available_types) < MaxTypes
           \/ getitem(cs, key).kind = "return"
        /\ settings' = setitem(cs, key, transcoder)
        /\ last' = Op("add_transcoder",
                      [content_type |-> key, transcoder |-> transcoder],
                      Returned(None))
        /\ UNCHANGED <<request, _request_body, _best_response_match,
                       response, calls>>

\* set_default_content_type(application, content_type, encoding)
SetDefaultContentType(content_type, encoding) ==
    /\ settings' = [get_settings_forced(settings) EXCEPT
                       !._default_content_type = content_type,
                       !.default_encoding = encoding]
    /\ last' = Op("set_default_content_type", content_type, Returned(None))
    /\ UNCHANGED <<request, _request_body, _best_response_match,
                   response, calls>>

\* ------------------------------------------------------- ContentMixin
\* a handler is constructed for a request; initialize() resets its caches
NewRequest(accept, content_type, body) ==
    /\ request' = [accept |-> accept, content_type |-> content_type,
                   body |-> body]
    /\ _request_body' = None
    /\ _best_response_match' = None
    /\ response' = NoResponse
    /\ calls' = NoCalls
    /\ last' = Op("initialize", None, Returned(None))
    /\ UNCHANGED settings

\* an Accept value that is '*/*' whenever the header is absent
accept_header_without_default(cs, req) ==
    IF req.accept # None THEN req.accept.entries ELSE <<Wildcard>>

\* get_response_content_type, the Accept value used: the header, else the
\* default content type, else '*/*'
accept_header(cs, req) ==
    IF req.accept # None THEN req.accept.entries
    ELSE IF cs._default_content_type # None
         THEN <<cs._default_content_type>>
         ELSE <<Wildcard>>

\* a fallback that forgets the configured default
no_match_is_none(cs) == None

\* a fallback that takes the type registered first
no_match_is_first_registered(cs) ==
    IF cs._available_types = <<>> THEN None
    ELSE Text(JoinType(cs._available_types[1]), <<>>)

\* get_response_content_type, the result when select_content_type raises
\* NoMatch
no_match(cs) == cs._default_content_type

\* ContentMixin.get_response_content_type: the value returned (and cached)
\* and the number of select_content_type runs it made
get_response_content_type(cs, req, cached) ==
    IF cached # None THEN [match |-> cached, runs |-> 0]
    ELSE LET acceptable == parse_accept(accept_header(cs, req))
             selected ==
                 select_content_type(acceptable, cs._available_types)
         IN  [match |-> IF selected = NoMatch THEN no_match(cs)
                        ELSE Text(JoinType(selected), <<>>),
              runs |-> 1]

GetResponseContentType ==
    LET cs == get_settings_forced(settings)
        r == get_response_content_type(cs, request, _best_response_match)
    IN  /\ request # None
        /\ calls.methods < MaxCalls
        /\ settings' = IF r.runs = 0 THEN settings ELSE cs
        /\ _best_response_match' = r.match
        /\ calls' = [calls EXCEPT !.methods = @ + 1,
                                  !.select_content_type = @ + r.runs]
        /\ last' = Op("get_response_content_type", None, Returned(r.match))
        /\ UNCHANGED <<request, _request_body, response>>

\* get_request_body, the Content-Type used: the header, else the default
request_content_type(cs, req) ==
    IF req.content_type # None THEN req.content_type
    ELSE cs._default_content_type

\* a parse step that reports an unparsable content type as unsupported
parse_request_content_type_as_415(content_type) ==
    IF content_type = None THEN Raised("TypeError")
    ELSE LET content_type_header == parse_content_type(content_type)
         IN  IF content_type_header = ValueError THEN HTTPError(415)
             ELSE Returned(content_type_header)

\* get_request_body, parsing the content type: parse_content_type(None)
\* raises TypeError, which is not caught; ValueError becomes HTTPError(400)
parse_request_content_type(content_type) ==
    IF content_type = None THEN Raised("TypeError")
    ELSE LET content_type_header == parse_content_type(content_type)
         IN  IF content_type_header = ValueError THEN HTTPError(400)
             ELSE Returned(content_type_header)

\* a lookup that takes any handler registered for the type/subtype[+suffix],
\* whatever parameters it was registered with
find_request_handler_any_parameters(cs, content_type_header) ==
    LET wanted == JoinType(content_type_header)
        same == {k \in DOMAIN cs._handlers : k.main = wanted}
    IN  IF same = {} THEN HTTPError(415)
        ELSE Returned(cs._handlers[CHOOSE k \in same : TRUE])

\* get_request_body, finding the handler for type/subtype[+suffix]
find_request_handler(cs, content_type_header) ==
    LET found == getitem(cs, Text(JoinType(content_type_header), <<>>))
    IN  IF found.kind = "raise" /\ IsInstance(found.exc, "KeyError")
        THEN HTTPError(415)
        ELSE found

\* a decode step that only expects ValueError from the transcoder
decode_request_body_value_error(handler, body) ==
    LET decoded == from_bytes(handler, body)
    IN  IF decoded.kind = "raise" /\ IsInstance(decoded.exc, "ValueError")
        THEN HTTPError(400)
        ELSE decoded

\* get_request_body, decoding the body
decode_request_body(handler, body) ==
    LET decoded == from_bytes(handler, body)
    IN  IF decoded.kind = "raise" /\ IsInstance(decoded.exc, "Exception")
        THEN HTTPError(400)
        ELSE decoded

\* ContentMixin.get_request_body: the outcome, the value cached afterwards
\* and the number of from_bytes runs it made
get_request_body(cs, req, cached) ==
    IF cached # None
    THEN [outcome |-> Returned(cached), cache |-> cached, runs |-> 0]
    ELSE
    LET header == parse_request_content_type(request_content_type(cs, req))
        failed(o) == [outcome |-> o, cache |-> cached, runs |-> 0]
    IN  IF header.kind = "raise" THEN failed(header)
        ELSE
        LET handler == find_request_handler(cs, header.value)
        IN  IF handler.kind = "raise" THEN failed(handler)
            ELSE
            LET decoded == decode_request_body(handler.value, req.body)
            IN  [outcome |-> decoded,
                 cache |-> IF decoded.kind = "raise" THEN cached
                           ELSE decoded.value,
                 runs |-> 1]

GetRequestBody ==
    LET cs == get_settings_forced(settings)
        r == get_request_body(cs, request, _request_body)
    IN  /\ request # None
        /\ calls.methods < MaxCalls
        /\ settings' = IF _request_body # None THEN settings ELSE cs
        /\ _request_body' = r.cache
        /\ calls' = [calls EXCEPT !.methods = @ + 1,
                                  !.from_bytes = @ + r.runs]
        /\ last' = Op("get_request_body", None, r.outcome)
        /\ UNCHANGED <<request, _best_response_match, response>>

\* a lookup that blames the client for a missing transcoder
find_response_handler_missing_is_406(cs, response_type) ==
    IF response_type = None THEN HTTPError(406)
    ELSE LET found == getitem(cs, response_type)
         IN  IF found.kind = "raise" /\ IsInstance(found.exc, "KeyError")
             THEN HTTPError(406)
             ELSE found

\* send_response, finding the handler of the response type
find_response_handler(cs, response_type) ==
    IF response_type = None THEN HTTPError(406)
    ELSE LET found == getitem(cs, response_type)
         IN  IF found.kind = "raise" /\ IsInstance(found.exc, "KeyError")
             THEN HTTPError(500)
             ELSE found

\* send_response, encoding the body
encode_response_body(handler, body) ==
    LET encoded == to_bytes(handler, body)
    IN  IF /\ encoded.kind = "raise"
           /\ \/ IsInstance(encoded.exc, "TypeError")
              \/ IsInstance(encoded.exc, "ValueError")
        THEN HTTPError(500)
        ELSE encoded

\* a write that adds Vary: Accept on every response
write_response_always_vary(resp, encoded, set_content_type) ==
    [content_type |-> IF set_content_type THEN encoded.content_type
                      ELSE resp.content_type,
     vary |-> resp.vary + 1,
     written |-> Append(resp.written, encoded.data_bytes)]

\* send_response, setting the headers and writing the body
write_response(resp, encoded, set_content_type) ==
    [content_type |-> IF set_content_type THEN encoded.content_type
                      ELSE resp.content_type,
     vary |-> IF set_content_type THEN resp.vary + 1 ELSE resp.vary,
     written |-> Append(resp.written, encoded.data_bytes)]

\* a send_response that labels the response with the negotiated type
send_response_negotiated_type(cs, response_type, resp, body, set_content_type) ==
    LET handler == find_response_handler(cs, response_type)
    IN  IF handler.kind = "raise"
        THEN [outcome |-> handler, handler |-> None, response |-> resp]
        ELSE
        LET encoded == encode_response_body(handler.value, body)
        IN  IF encoded.kind = "raise"
            THEN [outcome |-> encoded, handler |-> handler.value,
                  response |-> resp]
            ELSE [outcome |-> Returned(None), handler |-> handler.value,
                  response |->
                      write_response(resp,
                                     [encoded.value EXCEPT
                                         !.content_type = response_type],
                                     set_content_type)]

\* a send_response that sets the headers when it has found the handler,
\* before it encodes the body
send_response_headers_first(cs, response_type, resp, body, set_content_type) ==
    LET handler == find_response_handler(cs, response_type)
    IN  IF handler.kind = "raise"
        THEN [outcome |-> handler, handler |-> None, response |-> resp]
        ELSE
        LET encoded == encode_response_body(handler.value, body)
            labelled ==
                [resp EXCEPT
                    !.content_type = IF set_content_type
                                     THEN handler.value.content_type ELSE @,
                    !.vary = IF set_content_type THEN @ + 1 ELSE @]
        IN  IF encoded.kind = "raise"
            THEN [outcome |-> encoded, handler |-> handler.value,
                  response |-> labelled]
            ELSE [outcome |-> Returned(None), handler |-> handler.value,
                  response |-> write_response(resp, encoded.value,
                                              set_content_type)]

\* ContentMixin.send_response(body, set_content_type) once the response
\* type is known: the outcome, the handler used and the response afterwards
send_response(cs, response_type, resp, body, set_content_type) ==
    LET handler == find_response_handler(cs, response_type)
    IN  IF handler.kind = "raise"
        THEN [outcome |-> handler, handler |-> None, response |-> resp]
        ELSE
        LET encoded == encode_response_body(handler.value, body)
        IN  IF encoded.kind = "raise"
            THEN [outcome |-> encoded, handler |-> handler.value,
                  response |-> resp]
            ELSE [outcome |-> Returned(None), handler |-> handler.value,
                  response |-> write_response(resp, encoded.value,
                                              set_content_type)]

SendResponse(body, set_content_type) ==
    LET cs == get_settings_forced(settings)
        r == get_response_content_type(cs, request, _best_response_match)
        s == send_response(cs, r.match, response, body, set_content_type)
    IN  /\ request # None
        /\ calls.methods < MaxCalls
        /\ settings' = cs
        /\ _best_response_match' = r.match
        /\ response' = s.response
        /\ calls' = [calls EXCEPT !.methods = @ + 1,
                                  !.select_content_type = @ + r.runs]
        /\ last' = Op("send_response",
                      [body |-> body, set_content_type |-> set_content_type,
                       response_type |-> r.match, handler |-> s.handler],
                      s.outcome)
        /\ UNCHANGED <<request, _request_body>>

\* the handler sets the Content-Type header itself:
\* self.set_header('Content-Type', value)
SetHeader(value) ==
    /\ request # None
    /\ response' = [response EXCEPT !.content_type = value]
    /\ last' = Op("set_header", value, Returned(None))
    /\ UNCHANGED <<settings, request, _request_body, _best_response_match,
                   calls>>

\* settings[content_type], as an application or a test looks a handler up
GetItem(content_type) ==
    /\ settings # None
    /\ last' = Op("getitem", content_type, getitem(settings, content_type))
    /\ UNCHANGED <<settings, request, _request_body, _best_response_match,
                   response, calls>>

\* a FormUrlEncodedTranscoder(**encoding_options) and the bytes it is
\* given to decode
InitFormDecode ==
    /\ settings = None
    /\ request = None
    /\ _request_body = None
    /\ _best_response_match = None
    /\ response = NoResponse
    /\ calls = NoCalls
    /\ \E options \in DecodeOptions, data_bytes \in FormBodies :
          last = Op("FormUrlEncodedTranscoder",
                    [options |-> options, data_bytes |-> data_bytes],
                    Returned(None))

\* transcoder.from_bytes(data_bytes)
FormFromBytes ==
    /\ last.op = "FormUrlEncodedTranscoder"
    /\ last' = Op("from_bytes", last.arg,
                  form_from_bytes(last.arg.options, last.arg.data_bytes))
    /\ UNCHANGED <<settings, request, _request_body, _best_response_match,
                   response, calls>>

\* a FormUrlEncodedTranscoder(**encoding_options) and the value it is
\* given to encode
InitFormEncode ==
    /\ settings = None
    /\ request = None
    /\ _request_body = None
    /\ _best_response_match = None
    /\ response = NoResponse
    /\ calls = NoCalls
    /\ \E options \in EncodeOptions, inst_data \in EncodeInputs :
          last = Op("FormUrlEncodedTranscoder",
                    [options |-> options, inst_data |-> inst_data],
                    Returned(None))

\* a JSONTranscoder() and the value it is given to encode
InitJsonEncode ==
    /\ settings = None
    /\ request = None
    /\ _request_body = None
    /\ _best_response_match = None
    /\ response = NoResponse
    /\ calls = NoCalls
    /\ \E inst_data \in JsonInputs :
          last = Op("JSONTranscoder", [inst_data |-> inst_data],
                    Returned(None))

\* transcoder.to_bytes(inst_data)
JsonToBytes ==
    /\ last.op = "JSONTranscoder"
    /\ last' = Op("JSONTranscoder.to_bytes", last.arg,
                  json_to_bytes(last.arg.inst_data))
    /\ UNCHANGED <<settings, request, _request_body, _best_response_match,
                   response, calls>>

\* transcoder.dumps(obj)
JsonDumps ==
    /\ last.op = "JSONTranscoder"
    /\ last' = Op("JSONTranscoder.dumps", last.arg,
                  json_dumps(last.arg.inst_data))
    /\ UNCHANGED <<settings, request, _request_body, _best_response_match,
                   response, calls>>

\* a MsgPackTranscoder() and the value it is given to normalize
InitNormalize ==
    /\ settings = None
    /\ request = None
    /\ _request_body = None
    /\ _best_response_match = None
    /\ response = NoResponse
    /\ calls = NoCalls
    /\ \E datum \in NormalizeInputs :
          last = Op("MsgPackTranscoder", [datum |-> datum], Returned(None))

\* transcoder.normalize_datum(datum)
NormalizeDatum ==
    /\ last.op = "MsgPackTranscoder"
    /\ last' = Op("normalize_datum", last.arg, normalize_datum(last.arg.datum))
    /\ UNCHANGED <<settings, request, _request_body, _best_response_match,
                   response, calls>>

\* a transcoder and the value it is given to encode and decode again
InitRoundTrip ==
    /\ settings = None
    /\ request = None
    /\ _request_body = None
    /\ _best_response_match = None
    /\ response = NoResponse
    /\ calls = NoCalls
    /\ \E transcoder \in Instances, inst_data \in RoundTripInputs :
          last = Op("Transcoder",
                    [transcoder |-> transcoder, inst_data |-> inst_data,
                     data_bytes |-> <<>>],
                    Returned(None))

\* transcoder.to_bytes(inst_data)
TranscoderToBytes ==
    /\ last.op = "Transcoder"
    /\ last' = Op("Transcoder.to_bytes", last.arg,
                  transcoder_to_bytes(last.arg.transcoder, last.arg.inst_data))
    /\ UNCHANGED <<settings, request, _request_body, _best_response_match,
                   response, calls>>

\* transcoder.from_bytes(data_bytes) of the bytes to_bytes returned
TranscoderFromBytes ==
    /\ last.op = "Transcoder.to_bytes"
    /\ last.outcome.kind = "return"
    /\ last' = Op("Transcoder.from_bytes",
                  [last.arg EXCEPT !.data_bytes = last.outcome.value.data_bytes],
                  transcoder_from_bytes(last.arg.transcoder,
                                        last.outcome.value.data_bytes))
    /\ UNCHANGED <<settings, request, _request_body, _best_response_match,
                   response, calls>>

\* a FormUrlEncodedTranscoder whose literal table may have been cleared and
\* a value it may have no rule for
InitFormUnsupported ==
    /\ settings = None
    /\ request = None
    /\ _request_body = None
    /\ _best_response_match = None
    /\ response = NoResponse
    /\ calls = NoCalls
    /\ \E options \in UnsupportedOptions, inst_data \in UnsupportedInputs :
          last = Op("FormUrlEncodedTranscoder",
                    [options |-> options, inst_data |-> inst_data],
                    Returned(None))

\* transcoder.to_bytes(inst_data)
FormToBytes ==
    /\ last.op = "FormUrlEncodedTranscoder"
    /\ last' = Op("to_bytes", last.arg,
                  form_to_bytes(last.arg.options, last.arg.inst_data))
    /\ UNCHANGED <<settings, request, _request_body, _best_response_match,
                   response, calls>>

\* the application changes its configuration between requests only: the
\* registry is read-only while a request is processed
Idle == calls.methods = 0

\* ----------------------------------------------------- specifications
\* the application configures its registry and looks handlers up
Next ==
    \/ \E d \in Defaults : Install(d[1], d[2])
    \/ \E f \in BOOLEAN : GetSettings(f)
    \/ \E t \in Transcoders, c \in RegisteredAs : AddTranscoder(t, c)
    \/ \E d \in Defaults : SetDefaultContentType(d[1], d[2])
    \/ \E c \in LookedUp : GetItem(c)

Spec == Init /\ [][Next]_vars

\* request bodies are decoded; the registry is configured between requests
NextRequestBody ==
    \/ Idle /\ \E t \in Transcoders, c \in RegisteredAs : AddTranscoder(t, c)
    \/ Idle /\ \E d \in Defaults : SetDefaultContentType(d[1], d[2])
    \/ \E c \in ContentTypeHeaders, b \in RequestBodies :
          NewRequest(None, c, b)
    \/ GetRequestBody

SpecRequestBody == Init /\ [][NextRequestBody]_vars

\* responses are negotiated and sent; the registry is configured between
\* requests
NextResponse ==
    \/ Idle /\ \E t \in Transcoders, c \in RegisteredAs : AddTranscoder(t, c)
    \/ Idle /\ \E d \in Defaults : SetDefaultContentType(d[1], d[2])
    \/ \E a \in AcceptHeaders :
          NewRequest(a, ApplicationJson, Bytes("json", Dict))
    \/ GetResponseContentType
    \/ \E b \in ResponseBodies, sct \in BOOLEAN : SendResponse(b, sct)

SpecResponse == Init /\ [][NextResponse]_vars

\* a handler answers requests of either Content-Type and may set the
\* Content-Type header itself; the registry is configured between requests
NextHandler ==
    \/ Idle /\ \E t \in Transcoders, c \in HandledAs : AddTranscoder(t, c)
    \/ Idle /\ \E d \in Defaults : SetDefaultContentType(d[1], d[2])
    \/ \E a \in AcceptHeaders, c \in RespondedTo :
          NewRequest(a, c, Bytes("json", Dict))
    \/ GetResponseContentType
    \/ \E b \in SentBodies, sct \in BOOLEAN : SendResponse(b, sct)
    \/ SetHeader(FooJson)

SpecHandler == Init /\ [][NextHandler]_vars

\* response types are negotiated over wildcards and quality values; the
\* registry is configured between requests
NextNegotiation ==
    \/ Idle /\ \E t \in Transcoders, c \in NegotiatedAs : AddTranscoder(t, c)
    \/ Idle /\ \E d \in Defaults : SetDefaultContentType(d[1], d[2])
    \/ \E a \in NegotiationHeaders :
          NewRequest(a, ApplicationJson, Bytes("json", Dict))
    \/ GetResponseContentType

SpecNegotiation == Init /\ [][NextNegotiation]_vars

\* responses are negotiated while the registry is reconfigured at any time
NextLiveRegistry ==
    \/ \E t \in Transcoders, c \in RegisteredAs : AddTranscoder(t, c)
    \/ \E d \in Defaults : SetDefaultContentType(d[1], d[2])
    \/ \E a \in AcceptHeaders :
          NewRequest(a, ApplicationJson, Bytes("json", Dict))
    \/ GetResponseContentType
    \/ \E b \in ResponseBodies, sct \in BOOLEAN : SendResponse(b, sct)

SpecLiveRegistry == Init /\ [][NextLiveRegistry]_vars

\* form bodies are decoded
NextFormDecode == FormFromBytes

SpecFormDecode == InitFormDecode /\ [][NextFormDecode]_vars

\* values are encoded as forms
NextFormEncode == FormToBytes

SpecFormEncode == InitFormEncode /\ [][NextFormEncode]_vars

\* values are encoded as JSON, by to_bytes or by dumps alone
NextJsonEncode == JsonToBytes \/ JsonDumps

SpecJsonEncode == InitJsonEncode /\ [][NextJsonEncode]_vars

\* values are encoded and the bytes decoded again
NextRoundTrip == TranscoderToBytes \/ TranscoderFromBytes

SpecRoundTrip == InitRoundTrip /\ [][NextRoundTrip]_vars

\* values are normalized for umsgpack
NextNormalize == NormalizeDatum

SpecNormalize == InitNormalize /\ [][NextNormalize]_vars

\* values without a rule are encoded as forms
NextFormUnsupported == FormToBytes

SpecFormUnsupported == InitFormUnsupported /\ [][NextFormUnsupported]_vars

\* ------------------------------------------------------------- claims
\* C1: registering a content type whose canonical form is already
\* registered is a no-op: the codec registered first stays in place,
\* lookup of that type still returns it, and the list of available content
\* types is not extended.
C1_DuplicateRegistrationIsNoOp ==
    [][ \A key \in (IF settings = None THEN {}
                    ELSE DOMAIN settings._handlers) :
          ( /\ last'.op = "add_transcoder"
            /\ Str(parse_content_type(last'.arg.content_type)) = key )
          => /\ settings'._handlers[key] = settings._handlers[key]
             /\ getitem(settings', last'.arg.content_type)
                  = Returned(settings._handlers[key])
             /\ settings'._available_types = settings._available_types
      ]_vars

\* C1 witness: a transcoder was registered under a content type that
\* already had a different one, and the registry still holds the first.
C1_Witness ==
    /\ last.op = "add_transcoder"
    /\ getitem(settings, last.arg.content_type).kind = "return"
    /\ getitem(settings, last.arg.content_type).value # last.arg.transcoder
    /\ Len(settings._available_types) = 1

\* two header strings that differ only in the order of their parameters
\* and in the letter case of the parameter names
SameUpToOrderAndCase(s, t) ==
    /\ s.main = t.main
    /\ Len(s.params) = Len(t.params)
    /\ \E pi \in [DOMAIN s.params -> DOMAIN t.params] :
          /\ \A i, j \in DOMAIN s.params : pi[i] = pi[j] => i = j
          /\ \A i \in DOMAIN s.params :
                /\ Lower(s.params[i].n) = Lower(t.params[pi[i]].n)
                /\ s.params[i].v = t.params[pi[i]].v

\* a lookup answers for the key that differs from the string looked up
\* only in parameter order and parameter-name case, and fails without one
LookupIsCanonical ==
    last.op = "getitem" =>
        LET same == {k \in DOMAIN settings._handlers :
                        SameUpToOrderAndCase(k, last.arg)}
        IN  /\ \A k \in same : last.outcome = Returned(settings._handlers[k])
            /\ same = {} => last.outcome = Raised("KeyError")

\* registering X under a string S that has no equivalent key yet makes
\* every equivalent S' return X and changes the lookup of no other string
RegistrationIsCanonical ==
    LET before == get_settings_forced(settings)
        S == last'.arg.content_type
        X == last'.arg.transcoder
    IN  ( /\ last'.op = "add_transcoder"
          /\ \A k \in DOMAIN before._handlers : ~SameUpToOrderAndCase(k, S) )
        => \A T \in LookedUp \cup {S} :
              IF SameUpToOrderAndCase(S, T)
              THEN getitem(settings', T) = Returned(X)
              ELSE getitem(settings', T) = getitem(before, T)

\* C2: registry keys are canonicalized on registration and on lookup:
\* registering codec X under S and then looking up an S' that differs from
\* S only in parameter order or parameter-name case returns X, and strings
\* that differ by a present versus omitted parameter are distinct keys: a
\* lookup of one does not find, and a registration of one does not change,
\* the other.
C2_KeysAreCanonicalized ==
    /\ []LookupIsCanonical
    /\ [][RegistrationIsCanonical]_vars

\* C2 witness: a lookup with a string that is not spelled like the stored
\* key returned the codec, while a sibling key with one parameter fewer is
\* registered with another codec.
C2_Witness ==
    /\ last.op = "getitem"
    /\ last.outcome.kind = "return"
    /\ last.arg \notin DOMAIN settings._handlers
    /\ \E k \in DOMAIN settings._handlers :
          /\ Len(k.params) < Len(last.arg.params)
          /\ settings._handlers[k] # last.outcome.value

\* the response content type a call returned or used
ResponseTypeOf(l) ==
    IF l.op = "send_response" THEN l.arg.response_type ELSE l.outcome.value

Negotiated(l) == l.op \in {"get_response_content_type", "send_response"}

\* C3: once get_response_content_type has been called on a request, every
\* later call on it (directly or from send_response) returns the identical
\* result, and select_content_type is run at most once for the request,
\* also when the registry is changed between the calls.
C3_ResponseTypeMemoized ==
    [][ ( /\ Negotiated(last')
          /\ request' = request
          /\ calls.select_content_type >= 1 )
        => /\ ResponseTypeOf(last') = _best_response_match
           /\ calls'.select_content_type <= 1
      ]_vars

\* C4: after a get_request_body call has decoded the body successfully,
\* whatever value it decoded to, a further call on the request does not
\* invoke from_bytes again and returns the identical value, so from_bytes
\* runs at most once.
C4_RequestBodyMemoized ==
    [][ ( /\ last.op = "get_request_body"
          /\ last.outcome.kind = "return"
          /\ last'.op = "get_request_body" )
        => /\ calls'.from_bytes = calls.from_bytes
           /\ calls'.from_bytes <= 1
           /\ last'.outcome = last.outcome
      ]_vars

\* a content type is registered under exactly this type/subtype[+suffix]
RegisteredFor(cs, header) ==
    \E i \in DOMAIN cs._available_types :
        LET a == cs._available_types[i]
        IN  /\ a.content_type = header.content_type
            /\ a.content_subtype = header.content_subtype
            /\ a.content_suffix = header.content_suffix
            /\ DOMAIN a.parameters = {}

\* the Content-Type get_request_body works with is a string
HasContentType ==
    /\ last.op = "get_request_body"
    /\ request_content_type(settings, request) # None

ParsedContentType ==
    parse_content_type(request_content_type(settings, request))

\* C5: get_request_body fails with 415 whenever the Content-Type (or the
\* default when the header is absent) parses but no codec is registered
\* for its type/subtype[+suffix], and from_bytes is never invoked then.
C5_UnregisteredTypeIs415 ==
    ( /\ HasContentType
      /\ ParsedContentType # ValueError
      /\ ~RegisteredFor(settings, ParsedContentType) )
    => /\ last.outcome = HTTPError(415)
       /\ calls.from_bytes = 0

\* C5 witness: a request was refused with 415 although the registry holds
\* a transcoder for the same type/subtype with a parameter.
C5_Witness ==
    /\ HasContentType
    /\ last.outcome = HTTPError(415)
    /\ request.content_type = ApplicationJson
    /\ \E k \in DOMAIN settings._handlers : k.main = ApplicationJson.main

\* C6 as claimed: get_request_body fails with 415 when the Content-Type
\* value cannot be parsed as a MIME type.
C6_UnparsableTypeIs415 ==
    (HasContentType /\ ParsedContentType = ValueError)
    => last.outcome = HTTPError(415)

\* C6 as amended: get_request_body fails with 400, and invokes no codec,
\* when the Content-Type value cannot be parsed as a MIME type.
C6_UnparsableTypeIs400 ==
    (HasContentType /\ ParsedContentType = ValueError)
    => /\ last.outcome = HTTPError(400)
       /\ calls.from_bytes = 0

\* C6 witness: a request with the header 'application-json' was answered
\* 400 by an application that has transcoders and a default.
C6_Witness ==
    /\ last.op = "get_request_body"
    /\ request.content_type = Malformed
    /\ last.outcome = HTTPError(400)
    /\ settings._available_types # <<>>
    /\ settings._default_content_type # None

\* C7: when a codec is registered for the request's content type and its
\* from_bytes raises, whatever the exception, get_request_body fails with
\* 400 and the exception itself does not reach the caller.
C7_DecodeFailureIs400 ==
    ( /\ HasContentType
      /\ ParsedContentType # ValueError
      /\ RegisteredFor(settings, ParsedContentType)
      /\ from_bytes(settings._handlers[Text(JoinType(ParsedContentType),
                                            <<>>)],
                    request.body).kind = "raise" )
    => /\ last.outcome = HTTPError(400)
       /\ last.outcome.exc = "HTTPError"

\* C7 witness: the transcoder ran and raised an exception that is not a
\* ValueError, and the call failed with 400.
C7_Witness ==
    /\ HasContentType
    /\ calls.from_bytes >= 1
    /\ last.outcome = HTTPError(400)
    /\ ParsedContentType # ValueError
    /\ RegisteredFor(settings, ParsedContentType)
    /\ LET raised == from_bytes(
                         settings._handlers[Text(JoinType(ParsedContentType),
                                                 <<>>)], request.body)
       IN  raised.kind = "raise" /\ ~IsInstance(raised.exc, "ValueError")

\* no entry of the Accept header matches a registered content type; a
\* request without the header accepts every registered type
AcceptMatchesNone(cs, req) ==
    IF req.accept = None THEN cs._available_types = <<>>
    ELSE \A e \in DOMAIN req.accept.entries :
         \A i \in DOMAIN cs._available_types :
            LET pattern == req.accept.entries[e].main
                a == cs._available_types[i]
            IN  \/ pattern[1][1] \notin {"*", a.content_type}
                \/ pattern[2][1] \notin {"*", a.content_subtype}

\* C8: send_response fails with 406 exactly when no response content type
\* can be resolved: the Accept header matches no registered content type
\* and no default content type is configured.
C8_NotAcceptableIs406 ==
    last.op = "send_response" =>
        /\ last.outcome = HTTPError(406) <=> last.arg.response_type = None
        /\ last.outcome = HTTPError(406) <=>
              ( /\ AcceptMatchesNone(settings, request)
                /\ settings._default_content_type = None )

\* C8 witness: a request whose Accept header names an unregistered type
\* was answered 406 by an application that has transcoders but no default.
C8_Witness ==
    /\ last.op = "send_response"
    /\ last.outcome = HTTPError(406)
    /\ request.accept # None
    /\ settings._available_types # <<>>

\* a codec is registered under the content type
RegisteredUnder(cs, content_type) ==
    \E k \in DOMAIN cs._handlers : SameUpToOrderAndCase(k, content_type)

\* C9: when the response content type is resolved to the configured
\* default and no codec is registered under it, send_response fails with
\* 500, not with a client error.
C9_MisconfiguredDefaultIs500 ==
    ( /\ last.op = "send_response"
      /\ settings._default_content_type # None
      /\ last.arg.response_type = settings._default_content_type
      /\ ~RegisteredUnder(settings, settings._default_content_type) )
    => last.outcome = HTTPError(500)

\* C9 witness: the default application/xml has no transcoder, other types
\* have, and the response failed with 500.
C9_Witness ==
    /\ last.op = "send_response"
    /\ last.arg.response_type = ApplicationXml
    /\ settings._default_content_type = ApplicationXml
    /\ settings._available_types # <<>>
    /\ last.outcome = HTTPError(500)

\* C10: when the Accept header matches none of the registered content
\* types and a default is configured, get_response_content_type returns
\* the default, and send_response encodes the body with the codec
\* registered for the default.
C10_NoMatchFallsBackToDefault ==
    ( /\ Negotiated(last)
      /\ AcceptMatchesNone(settings, request)
      /\ settings._default_content_type # None )
    => /\ ResponseTypeOf(last) = settings._default_content_type
       /\ ( /\ last.op = "send_response"
            /\ RegisteredUnder(settings, settings._default_content_type) )
          => LET codec == getitem(settings,
                                  settings._default_content_type).value
                 encoded == to_bytes(codec, last.arg.body)
             IN  /\ last.arg.handler = codec
                 /\ encoded.kind = "return" =>
                       /\ last.outcome = Returned(None)
                       /\ response.written # <<>>
                       /\ response.written[Len(response.written)]
                            = encoded.value.data_bytes

\* C10 witness: Accept: application/xml matched nothing, the default
\* application/json is registered, and its codec wrote the body.
C10_Witness ==
    /\ last.op = "send_response"
    /\ request.accept = Accept(<<ApplicationXml>>)
    /\ settings._default_content_type = ApplicationJson
    /\ last.arg.response_type = ApplicationJson
    /\ last.arg.handler = JSONTranscoder
    /\ last.outcome = Returned(None)
    /\ response.written = <<Bytes("json", last.arg.body)>>

\* the response content type is the type/subtype[+suffix] of a registered
\* content type
IsRegisteredType(cs, response_type) ==
    \E i \in DOMAIN cs._available_types :
        response_type = Text(JoinType(cs._available_types[i]), <<>>)

\* C11: when the request has no Accept header, the default content type
\* is the implicit Accept value if one is configured and */* otherwise:
\* with a default the response type is the default, never another
\* registered type, and when the default is registered send_response
\* encodes the body with its codec whatever the request's Content-Type
\* is; with no default and a non-empty registry a registered type is
\* selected.
C11_NoAcceptUsesDefault ==
    (Negotiated(last) /\ request.accept = None) =>
        LET default == settings._default_content_type
        IN  IF default # None
            THEN /\ ResponseTypeOf(last) = default
                 /\ ( /\ last.op = "send_response"
                      /\ RegisteredUnder(settings, default) )
                    => LET codec == getitem(settings, default).value
                           encoded == to_bytes(codec, last.arg.body)
                       IN  /\ last.arg.handler = codec
                           /\ encoded.kind = "return" =>
                                 /\ last.outcome = Returned(None)
                                 /\ response.written # <<>>
                                 /\ response.written[Len(response.written)]
                                      = encoded.value.data_bytes
            ELSE settings._available_types # <<>>
                 => IsRegisteredType(settings, ResponseTypeOf(last))

\* C11 witness: a request with Content-Type application/msgpack and no
\* Accept header was answered by the JSON codec of the default, although
\* msgpack was registered first.
C11_Witness ==
    /\ last.op = "send_response"
    /\ request.accept = None
    /\ request.content_type = ApplicationMsgpack
    /\ settings._default_content_type = ApplicationJson
    /\ Len(settings._available_types) = 2
    /\ JoinType(settings._available_types[1]) = ApplicationMsgpack.main
    /\ last.arg.handler = JSONTranscoder
    /\ last.outcome = Returned(None)
    /\ response.written = <<Bytes("json", Dict)>>

\* how specific an Accept entry is: 0 type/subtype, 1 type/*, 2 */*
EntrySpecificity(entry) ==
    IF entry.main[1][1] = "*" THEN 2
    ELSE IF entry.main[2][1] = "*" THEN 1
    ELSE 0

\* the q value of an Accept entry in tenths, 1.0 when it has none
EntryQuality(entry) ==
    IF \E i \in DOMAIN entry.params : entry.params[i].n = "q"
    THEN LET i == CHOOSE i \in DOMAIN entry.params : entry.params[i].n = "q"
         IN  IF entry.params[i].v = "0.5" THEN 5 ELSE 10
    ELSE 10

\* the Accept entry matches the registered content type
EntryMatches(entry, registered) ==
    /\ entry.main[1][1] \in {"*", registered.content_type}
    /\ \/ entry.main[2][1] = "*"
       \/ entry.main[2] = JoinType(registered)[2]

\* the entries of the request's Accept header that match the registered
\* content type
MatchingEntries(req, registered) ==
    {e \in DOMAIN req.accept.entries :
        EntryMatches(req.accept.entries[e], registered)}

\* the specificity of the most specific entry that matches it
BestSpecificity(req, registered) ==
    LET m == MatchingEntries(req, registered)
        e == CHOOSE e \in m : \A f \in m :
                 EntrySpecificity(req.accept.entries[e])
                   <= EntrySpecificity(req.accept.entries[f])
    IN  EntrySpecificity(req.accept.entries[e])

\* the highest q value among the most specific entries that match it
BestQuality(req, registered) ==
    LET m == {e \in MatchingEntries(req, registered) :
                 EntrySpecificity(req.accept.entries[e])
                   = BestSpecificity(req, registered)}
        e == CHOOSE e \in m : \A f \in m :
                 EntryQuality(req.accept.entries[e])
                   >= EntryQuality(req.accept.entries[f])
    IN  EntryQuality(req.accept.entries[e])

\* the registered content types the Accept header matches
Matched(cs, req) ==
    {i \in DOMAIN cs._available_types :
        MatchingEntries(req, cs._available_types[i]) # {}}

BestMatched(cs, req) ==
    LET types == cs._available_types
    IN  {s \in Matched(cs, req) :
            \A i \in Matched(cs, req) :
                \/ BestSpecificity(req, types[s])
                     < BestSpecificity(req, types[i])
                \/ /\ BestSpecificity(req, types[s])
                        = BestSpecificity(req, types[i])
                   /\ BestQuality(req, types[s])
                        >= BestQuality(req, types[i])}

TypeOrderBefore(a, b) ==
    \/ TokenRank(a.content_type) < TokenRank(b.content_type)
    \/ /\ a.content_type = b.content_type
       /\ TokenRank(a.content_subtype) < TokenRank(b.content_subtype)

LabelOf(handler) ==
    IF handler.cls = "TextContentHandler"
    THEN Text(handler.content_type.main,
              handler.content_type.params
                \o <<Param("charset", [quoted |-> handler.default_encoding])>>)
    ELSE handler.content_type

\* C14: on a successful send_response with set_content_type true, the
\* Content-Type header is the content type returned by the selected
\* codec's to_bytes (its own content_type, plus the charset parameter for
\* a text codec), not the registry key the codec was negotiated under.
C14_ContentTypeIsTheCodecs ==
    ( /\ last.op = "send_response"
      /\ last.outcome = Returned(None)
      /\ last.arg.set_content_type )
    => /\ response.content_type = LabelOf(last.arg.handler)
       /\ last.arg.handler.content_type # last.arg.response_type
          => response.content_type.main # last.arg.response_type.main

\* C14 witness: the msgpack codec is registered under
\* application/vendor+json, that type was negotiated, and the response is
\* labelled application/msgpack.
C14_Witness ==
    /\ last.op = "send_response"
    /\ last.outcome = Returned(None)
    /\ last.arg.set_content_type
    /\ last.arg.response_type = VendorJson
    /\ last.arg.handler = MsgPackTranscoder
    /\ response.content_type = ApplicationMsgpack

\* C15: a successful send_response adds Vary: Accept if and only if it
\* also sets the Content-Type header, that is when set_content_type is
\* true; with set_content_type false neither header is touched, a
\* Content-Type set earlier by the handler is preserved, and the encoded
\* body is written all the same.
C15_VaryIffContentTypeSet ==
    [][ ( /\ last'.op = "send_response"
          /\ last'.outcome = Returned(None) )
        => /\ IF last'.arg.set_content_type
              THEN /\ response'.vary = response.vary + 1
                   /\ response'.content_type = LabelOf(last'.arg.handler)
              ELSE /\ response'.vary = response.vary
                   /\ response'.content_type = response.content_type
           /\ response'.written
                = Append(response.written,
                         Bytes(last'.arg.handler.fmt, last'.arg.body))
      ]_vars

\* C15 witness: the handler set application/foo+json, send_response ran
\* with set_content_type false, the header is still there, no Vary was
\* added and the body was written.
C15_Witness ==
    /\ last.op = "send_response"
    /\ last.outcome = Returned(None)
    /\ ~last.arg.set_content_type
    /\ response.content_type = FooJson
    /\ response.vary = 0
    /\ response.written = <<Bytes("json", Dict)>>

\* C16: when the selected codec fails to encode the body, whatever
\* exception its to_bytes raises, send_response fails with 500 and the
\* codec's exception does not reach the caller.
C16_EncodeFailureIs500 ==
    ( /\ last.op = "send_response"
      /\ last.arg.handler # None
      /\ to_bytes(last.arg.handler, last.arg.body).kind = "raise" )
    => last.outcome = HTTPError(500)

\* the bytes are ASCII, as form-urlencoded data is
IsAscii(data_bytes) == \A i \in DOMAIN data_bytes : data_bytes[i] < 128

\* the segments of the input: the first and last position of every
\* non-empty stretch between two '&' (or an end of the input)
Segments(data) ==
    {seg \in (DOMAIN data) \X (DOMAIN data) :
        /\ seg[1] <= seg[2]
        /\ \A k \in seg[1]..seg[2] : data[k] # Ord("&")
        /\ seg[1] = 1 \/ data[seg[1] - 1] = Ord("&")
        /\ seg[2] = Len(data) \/ data[seg[2] + 1] = Ord("&")}

\* the position of the first '=' of a segment, 0 when it has none
FirstEquals(data, seg) ==
    LET eq == {k \in seg[1]..seg[2] : data[k] = Ord("=")}
    IN  IF eq = {} THEN 0 ELSE CHOOSE k \in eq : \A j \in eq : k <= j

\* the percent-decoded name of a segment
NameOf(options, data, seg) ==
    LET eq == FirstEquals(data, seg)
    IN  dequote(options,
                SubSeq(data, seg[1], IF eq = 0 THEN seg[2] ELSE eq - 1))

\* the percent-decoded value of a segment, empty without '='
ValueOf(options, data, seg) ==
    LET eq == FirstEquals(data, seg)
    IN  IF eq = 0 THEN <<>>
        ELSE dequote(options, SubSeq(data, eq + 1, seg[2]))

\* C17: from_bytes returns the mapping obtained by splitting the input on
\* '&', discarding empty segments, splitting each segment at its first
\* '=' (no '=' gives the empty value), percent-decoding both sides and
\* letting the last occurrence of a repeated name win; empty input gives
\* the empty mapping.
C17_FormDecodeLastWins ==
    (last.op = "from_bytes" /\ IsAscii(last.arg.data_bytes)) =>
        LET data == last.arg.data_bytes
            options == last.arg.options
            mapping == last.outcome.value
        IN  /\ last.outcome.kind = "return"
            /\ DOMAIN mapping
                 = {NameOf(options, data, seg) : seg \in Segments(data)}
            /\ \A seg \in Segments(data) :
                  ( \A later \in Segments(data) :
                       later[1] > seg[1]
                       => NameOf(options, data, later)
                            # NameOf(options, data, seg) )
                  => mapping[NameOf(options, data, seg)]
                       = ValueOf(options, data, seg)
            /\ data = <<>> => DOMAIN mapping = {}

\* C17 witness: an input with empty segments and a name that occurs twice
\* with different values was decoded to the later value.
C17_Witness ==
    /\ last.op = "from_bytes"
    /\ LET data == last.arg.data_bytes
           options == last.arg.options
       IN  /\ IsAscii(data)
           /\ \E seg, later \in Segments(data) :
                 /\ later[1] > seg[1]
                 /\ NameOf(options, data, seg) = NameOf(options, data, later)
                 /\ ValueOf(options, data, seg) # ValueOf(options, data, later)
                 /\ last.outcome.value[NameOf(options, data, seg)]
                      = ValueOf(options, data, later)

\* C18: from_bytes never fails: for every byte sequence, malformed
\* percent sequences and arbitrary octets included, it returns a mapping.
C18_FormDecodeNeverFails ==
    last.op = "from_bytes" => last.outcome.kind = "return"

\* the mapping fields of the value a transcoder was given, when every one
\* of them holds None, True or False under a str name
LiteralFields ==
    IF last.op = "to_bytes" /\ last.arg.inst_data.t = "dict"
         /\ \A i \in DOMAIN last.arg.inst_data.items :
               /\ last.arg.inst_data.items[i].items[1].t = "str"
               /\ last.arg.inst_data.items[i].items[2].t \in {"None", "bool"}
    THEN [i \in DOMAIN last.arg.inst_data.items |->
             last.arg.inst_data.items[i].items]
    ELSE <<>>

\* what a literal is written as: '', 'true', 'false'
LiteralText(value) ==
    IF value.t = "None" THEN <<>>
    ELSE IF value.v = <<1>> THEN Ascii(<<"t", "r", "u", "e">>)
    ELSE Ascii(<<"f", "a", "l", "s", "e">>)

\* the fields joined by '&', each name=literal; a None field written with
\* or without its '='
FieldsText(fields, none_has_equals) ==
    Join([i \in DOMAIN fields |->
            (IF i = 1 THEN <<>> ELSE <<Ord("&")>>)
              \o fields[i][1].v
              \o (IF fields[i][2].t = "None" /\ ~none_has_equals THEN <<>>
                  ELSE <<Ord("=")>>)
              \o LiteralText(fields[i][2])])

\* C19 as stated: a mapping of None, True and False fields encodes to
\* name= for None, name=true for True and name=false for False, joined by
\* '&', so that {a: None, b: True, c: False} encodes to a=&b=true&c=false
C19_NoneEncodesAsNameEquals ==
    (last.op = "to_bytes" /\ LiteralFields # <<>>) =>
        /\ last.outcome.kind = "return"
        /\ last.outcome.value.data_bytes = FieldsText(LiteralFields, TRUE)

\* C19 amended: a mapping of None, True and False fields encodes to the
\* name alone, without '=', for None, name=true for True and name=false
\* for False, joined by '&', so that {a: None, b: True, c: False} encodes
\* to a&b=true&c=false
C19_NoneEncodesAsNameAlone ==
    (last.op = "to_bytes" /\ LiteralFields # <<>>) =>
        /\ last.outcome.kind = "return"
        /\ last.outcome.value.data_bytes = FieldsText(LiteralFields, FALSE)

\* {a: None, b: True, c: False} was encoded to a&b=true&c=false
C19_Witness ==
    /\ last.op = "to_bytes"
    /\ last.arg.inst_data =
          FormDict(<< <<FieldName(1), FormNone>>,
                      <<FieldName(2), FormBool(TRUE)>>,
                      <<FieldName(3), FormBool(FALSE)>> >>)
    /\ last.outcome.kind = "return"
    /\ last.outcome.value.data_bytes =
          Ascii(<<"a", "&", "b", "=", "t", "r", "u", "e", "&",
                  "c", "=", "f", "a", "l", "s", "e">>)

\* what the octet is to be written as: itself when unreserved, '+' for a
\* space when space_as_plus, else %XX in upper-case hexadecimal
OctetText(options, c) ==
    IF c \in Unreserved THEN <<c>>
    ELSE IF c = Ord(" ") /\ options.space_as_plus THEN <<Ord("+")>>
    ELSE <<Ord("%"), HexDigit(c \div 16), HexDigit(c % 16)>>

\* the one field of the value a transcoder was given, when its name or its
\* value is one octet of bytes
OctetField ==
    IF last.op = "to_bytes" /\ last.arg.inst_data.t = "dict"
         /\ Len(last.arg.inst_data.items) = 1
         /\ \E k \in 1..2 :
               /\ last.arg.inst_data.items[1].items[k].t = "bytes"
               /\ last.arg.inst_data.items[1].items[3 - k].t = "str"
    THEN last.arg.inst_data.items[1].items
    ELSE <<>>

\* the text of one side of such a field
SideText(options, side) ==
    IF side.t = "bytes" THEN OctetText(options, side.v[1]) ELSE side.v

\* C20: for every octet 0..255 in an encoded name or value, to_bytes
\* writes the octet literally when it is unreserved, '+' for a space when
\* space_as_plus is enabled, and %XX in upper-case hexadecimal otherwise;
\* no octet makes the encoding fail
C20_EveryOctetIsEncoded ==
    (last.op = "to_bytes" /\ OctetField # <<>>) =>
        /\ last.outcome.kind = "return"
        /\ last.outcome.value.data_bytes =
              SideText(last.arg.options, OctetField[1]) \o <<Ord("=")>>
                \o SideText(last.arg.options, OctetField[2])

\* the value a transcoder was given has no rule: a mapping with a field
\* holding a plain object, or a list, tuple or set of elements that are
\* not pairs
HasNoRule ==
    /\ last.op = "to_bytes"
    /\ \/ /\ last.arg.inst_data.t = "dict"
          /\ \E i \in DOMAIN last.arg.inst_data.items :
                last.arg.inst_data.items[i].items[2].t = "object"
       \/ /\ last.arg.inst_data.t \in {"list", "tuple", "set"}
          /\ last.arg.inst_data.items # <<>>
          /\ \A i \in DOMAIN last.arg.inst_data.items :
                last.arg.inst_data.items[i].t \in {"int", "object"}

\* C21: to_bytes raises TypeError for a mapping field whose value is of an
\* unsupported type (a plain object) and for a top-level list, set or
\* tuple whose elements are not name/value pairs
C21_UnsupportedRaisesTypeError ==
    HasNoRule =>
        /\ last.outcome.kind = "raise"
        /\ last.outcome.exc = "TypeError"

\* C22: with the literal table overridden by an empty table, to_bytes
\* raises TypeError for each of None, True and False
C22_EmptyTableRaisesTypeError ==
    (/\ last.op = "to_bytes"
     /\ last.arg.options.literal_mapping = EmptyLiterals
     /\ last.arg.inst_data \in {FormNone, FormBool(TRUE), FormBool(FALSE)}) =>
        /\ last.outcome.kind = "raise"
        /\ last.outcome.exc = "TypeError"

RECURSIVE HoldsBytes(_)
\* the value is a byte sequence or holds one at some depth
HoldsBytes(value) ==
    \/ value.t \in ByteTypes
    \/ \E i \in DOMAIN value.items : HoldsBytes(value.items[i])

RECURSIVE InBase64(_)
\* the value with every byte sequence in it replaced by the str of its
\* standard-alphabet base64 encoding
InBase64(value) ==
    IF value.t \in ByteTypes THEN Scalar("str", b64encode(value.v))
    ELSE [value EXCEPT !.items = [i \in DOMAIN value.items |->
                                     InBase64(value.items[i])]]

\* C24: encoding with the JSON codec (to_bytes, or dumps alone) turns
\* every bytes, bytearray and memoryview value, at any nesting depth, into
\* the JSON string holding its standard-alphabet base64 encoding: the
\* result is the JSON text of the value with its byte sequences replaced
\* by their base64 strings
C24_BytesAreBase64 ==
    (last.op \in {"JSONTranscoder.to_bytes", "JSONTranscoder.dumps"}
       /\ HoldsBytes(last.arg.inst_data)) =>
        /\ last.outcome.kind = "return"
        /\ (IF last.op = "JSONTranscoder.dumps" THEN last.outcome.value
            ELSE last.outcome.value.data_bytes)
             = json_dumps(InBase64(last.arg.inst_data)).value

\* the kinds of value normalize_datum knows
RecognizedKinds ==
    {"None", "bool", "int", "float", "decimal", "str", "bytes", "bytearray",
     "memoryview", "uuid", "datetime", "ipaddress", "dataclass", "list",
     "tuple", "set", "dict"}

RECURSIVE FirstUnrecognized(_)
\* the class of the first value of an unknown kind met when going through
\* the value, its sequences and sets and the values of its mappings and
\* dataclasses, "" when there is none
FirstUnrecognized(datum) ==
    IF datum.t \notin RecognizedKinds THEN datum.t
    ELSE LET inner ==
                 [i \in DOMAIN datum.items |->
                     IF datum.t \in {"dict", "dataclass"}
                     THEN FirstUnrecognized(datum.items[i].items[2])
                     ELSE FirstUnrecognized(datum.items[i])]
         IN  IF \A i \in DOMAIN inner : inner[i] = "" THEN ""
             ELSE inner[CHOOSE i \in DOMAIN inner :
                            /\ inner[i] # ""
                            /\ \A j \in 1..(i - 1) : inner[j] = ""]

\* C25: normalize_datum raises TypeError naming the value's class whenever
\* the input holds, at any depth inside sequences, sets or mappings, a
\* value that is not of a recognized kind
C25_UnrecognizedRaisesTypeError ==
    (last.op = "normalize_datum" /\ FirstUnrecognized(last.arg.datum) # "") =>
        /\ last.outcome.kind = "raise"
        /\ last.outcome.exc = "TypeError"
        /\ last.outcome.value.class_name = FirstUnrecognized(last.arg.datum)

RECURSIVE same_value(_, _)
\* a == b for values of None, bools, ints, strs, lists and dicts of one
\* type each: a dict equals a dict of the same items in any order
same_value(a, b) ==
    /\ a.t = b.t
    /\ a.v = b.v
    /\ Len(a.items) = Len(b.items)
    /\ IF a.t = "dict"
       THEN \A i \in DOMAIN a.items : \E j \in DOMAIN b.items :
                /\ a.items[i].items[1] = b.items[j].items[1]
                /\ same_value(a.items[i].items[2], b.items[j].items[2])
       ELSE \A i \in DOMAIN a.items : same_value(a.items[i], b.items[i])

\* whether a dict of str names and str values, as the form transcoder
\* decodes, equals the value
same_mapping(decoded, value) ==
    /\ value.t = "dict"
    /\ \A i \in DOMAIN value.items :
          /\ value.items[i].items[1].t = "str"
          /\ value.items[i].items[2].t = "str"
    /\ DOMAIN decoded = {value.items[i].items[1].v : i \in DOMAIN value.items}
    /\ \A i \in DOMAIN value.items :
          decoded[value.items[i].items[1].v] = value.items[i].items[2].v

\* from_bytes(to_bytes(v)) == v in the state after from_bytes
DecodedEqualsEncoded ==
    /\ last.outcome.kind = "return"
    /\ IF last.arg.transcoder.cls = "FormUrlEncodedTranscoder"
       THEN same_mapping(last.outcome.value, last.arg.inst_data)
       ELSE same_value(last.outcome.value, last.arg.inst_data)

RECURSIVE at_most_from(_, _, _)
\* whether the digits from position i on write a number that is at most
\* the one limit writes from there on, both of one length
at_most_from(digits, limit, i) ==
    \/ i > Len(digits)
    \/ digits[i] < limit[i]
    \/ digits[i] = limit[i] /\ at_most_from(digits, limit, i + 1)

\* whether the number the digits write is at most the one limit writes
AtMost(digits, limit) ==
    \/ Len(digits) < Len(limit)
    \/ Len(digits) = Len(limit) /\ at_most_from(digits, limit, 1)

\* whether the int of that text is in -2**63 .. 2**64 - 1
InSixtyFourBits(text) ==
    IF text[1] = Ord("-")
    THEN AtMost(Tail(text),
                DecimalText(FALSE, <<9,2,2,3,3,7,2,0,3,6,8,5,4,7,7,5,8,0,8>>))
    ELSE AtMost(text,
                DecimalText(FALSE, <<1,8,4,4,6,7,4,4,0,7,3,7,0,9,5,5,1,6,1,5>>))

RECURSIVE IntsFit(_)
\* whether every int in the value is in -2**63 .. 2**64 - 1
IntsFit(value) ==
    /\ value.t = "int" => InSixtyFourBits(value.v)
    /\ \A i \in DOMAIN value.items : IntsFit(value.items[i])

\* whether the value is a mapping of strs to strs
StrToStr(value) ==
    /\ value.t = "dict"
    /\ \A i \in DOMAIN value.items :
          /\ value.items[i].items[1].t = "str"
          /\ value.items[i].items[2].t = "str"

\* the values each transcoder gives back as they were
GivenBack(transcoder, value) ==
    CASE transcoder.cls = "JSONTranscoder" -> TRUE
      [] transcoder.cls = "MsgPackTranscoder" -> IntsFit(value)
      [] transcoder.cls = "FormUrlEncodedTranscoder" -> StrToStr(value)

\* C23 as stated: for every codec and every value built from strings,
\* integers, booleans, null and nested string-keyed mappings and sequences
\* of these, to_bytes succeeds and from_bytes of its bytes equals the value
C23_EveryCodecRoundTrips ==
    /\ last.op = "Transcoder.to_bytes" => last.outcome.kind = "return"
    /\ last.op = "Transcoder.from_bytes" => DecodedEqualsEncoded

\* C23 as the code has it: JSON gives every such value back; MessagePack
\* gives it back when its integers are in -2**63 .. 2**64 - 1; the form
\* transcoder gives back mappings of strings to strings
C23_RoundTripsWhereSupported ==
    GivenBack(last.arg.transcoder, last.arg.inst_data) =>
        /\ last.op = "Transcoder.to_bytes" => last.outcome.kind = "return"
        /\ last.op = "Transcoder.from_bytes" => DecodedEqualsEncoded

\* the form transcoder gave back a mapping of two strs, one of them empty
C23_Witness ==
    /\ last.op = "Transcoder.from_bytes"
    /\ DecodedEqualsEncoded
    /\ last.arg.transcoder.cls = "FormUrlEncodedTranscoder"
    /\ last.arg.inst_data
         = FormDict(<< <<FieldName(1), FormStr(<<Ord("a")>>)>>,
                       <<FieldName(2), FormStr(<<>>)>> >>)
    /\ last.arg.data_bytes = Ascii(<<"a", "=", "a", "&", "b", "=">>)

\* the key of the registry the Content-Type header of the request names,
\* None when the header is absent or cannot be parsed
HeaderKey ==
    IF request = None THEN None
    ELSE IF request.content_type = None THEN None
    ELSE IF parse_content_type(request.content_type) = ValueError THEN None
    ELSE Str(parse_content_type(request.content_type))

\* C26: a request whose Content-Type header equals a registered content
\* type, with or without a suffix or parameters, is decoded by the codec
\* registered under that type and never rejected with 415
C26_RegisteredTypeIsDecoded ==
    (/\ last.op = "get_request_body"
     /\ HeaderKey # None
     /\ HeaderKey \in DOMAIN settings._handlers) =>
        /\ ~(last.outcome.kind = "raise" /\ last.outcome.status = 415)
        /\ last.outcome
             = decode_request_body(settings._handlers[HeaderKey], request.body)

\* the registered content type negotiation matches for the request, NoMatch
\* when it matches none
SelectedForResponse ==
    select_content_type(parse_accept(accept_header(settings, request)),
                        settings._available_types)

\* C27: whenever negotiation matches a registered content type, with or
\* without a suffix or parameters, send_response encodes the body with
\* the codec registered under that type: it does not answer 500 for a
\* missing transcoder and uses no codec registered under another key
C27_MatchedTypeEncodes ==
    (last.op = "send_response" /\ SelectedForResponse # NoMatch) =>
        /\ ~(last.arg.handler = None /\ last.outcome.kind = "raise"
               /\ last.outcome.status = 500)
        /\ last.arg.handler = settings._handlers[Str(SelectedForResponse)]

\* the canonical strings of the list of available content types
AvailableKeys ==
    {Str(settings._available_types[i]) : i \in DOMAIN settings._available_types}

\* C28: after any sequence of registrations the list of available content
\* types and the keys of the codec map denote the same set of canonical
\* content types: the list has no duplicates, it is as long as the map
\* has keys, and the canonical string of every entry is a key and every
\* key is the canonical string of an entry
C28_ListAndKeysAgree ==
    settings # None =>
        /\ \A i, j \in DOMAIN settings._available_types :
              Str(settings._available_types[i])
                = Str(settings._available_types[j]) => i = j
        /\ Len(settings._available_types)
             = Cardinality(DOMAIN settings._handlers)
        /\ AvailableKeys = DOMAIN settings._handlers

\* C28 witness: 'application/json; a=1; B=2' was registered when
\* 'application/json; b=2; a=1' already was, with another transcoder, and
\* the registry still has its two entries and the first transcoder
C28_Witness ==
    /\ last.op = "add_transcoder"
    /\ last.arg.content_type
         = Text(ApplicationJson.main, <<Param("a", "1"), Param("B", "2")>>)
    /\ Len(settings._available_types) = 2
    /\ Cardinality(DOMAIN settings._handlers) = 2
    /\ settings._handlers[Str(parse_content_type(last.arg.content_type))]
         # last.arg.transcoder

\* C29: when send_response fails, with 406 for no acceptable type, 500 for
\* a missing transcoder or 500 for an encoding failure, it leaves the
\* response as it was: no Content-Type or Vary header is set or added and
\* no body bytes are written
C29_FailureLeavesResponse ==
    [][(last'.op = "send_response" /\ last'.outcome.kind = "raise")
         => response' = response]_vars

\* C29 witness: a send_response failed to encode its body with 500 after
\* an earlier one of the same request had set the headers and written,
\* and the response holds what the earlier one left
C29_Witness ==
    /\ last.op = "send_response"
    /\ last.outcome.kind = "raise"
    /\ last.outcome.status = 500
    /\ last.arg.handler # None
    /\ last.arg.set_content_type
    /\ response.vary = 1
    /\ Len(response.written) = 1

\* C30: an application has at most one ContentSettings: once it exists,
\* every later install and get_settings call returns it and leaves it as
\* it is, whatever default content type or encoding install is given: the
\* stored default content type, default encoding and registered codecs
\* stay; get_settings without force_instance on an application without
\* settings returns None and creates nothing
C30_OneContentSettings ==
    [][last'.op \in {"install", "get_settings"} =>
         /\ last'.outcome = Returned(settings')
         /\ settings # None => settings' = settings
         /\ (/\ settings = None
             /\ last'.op = "get_settings"
             /\ ~last'.arg.force_instance) => settings' = None]_vars

\* C30 witness: install was called with application/xml on an application
\* whose settings have application/json as default and a transcoder
\* registered, and returned those settings
C30_Witness ==
    /\ last.op = "install"
    /\ last.arg = ApplicationXml
    /\ last.outcome = Returned(settings)
    /\ settings._default_content_type = ApplicationJson
    /\ settings.default_encoding = Encoding("utf-8")
    /\ DOMAIN settings._handlers # {}

====
